---- MODULE Spec2Model ----
(***************************************************************************)
(* Outbound request governor of validator-dashboard-beaconcha:             *)
(*   - GlobalRateLimiter (src/unnamed/part_003) on top of                  *)
(*     golang.org/x/time/rate, burst 1;                                    *)
(*   - Client.doRequestWithRetry (src/unnamed/part_001);                   *)
(*   - Cache.GetOrSet (src/internal/beaconcha/client.go);                  *)
(*   - ValidatorService.GetValidatorData over Cache, and the handler over  *)
(*     MemoryCache (src/internal/service/validator.go,                     *)
(*     src/internal/validator/handler.go, src/internal/cache/cache.go);    *)
(*   - the worker client: queueRawRequest and the worker goroutine         *)
(*     (src/unnamed/part_000).                                             *)
(*   - ParseRateLimitHeaders, generateCacheKey, validateValidatorRequest,   *)
(*     the IPRateLimit middleware, IPRateLimiter.Allow and the pagination  *)
(*     of Client.GetValidators, each under a specification of its own.     *)
(*                                                                         *)
(* Time.  One tick of the clock is one second.  Every instant the code     *)
(* stores (nextAllowed, a reservation's timeToAct, the end of a sleep, an  *)
(* entry's expiration) is kept as the number of ticks left until it, 0     *)
(* once it is reached or when it is the zero time; Tick counts them all    *)
(* down.  Computation takes no time and a timer fires at its due instant:  *)
(* the clock advances only while every goroutine is blocked on a timer     *)
(* that is not yet due or on the outside world (an HTTP response, a        *)
(* loader, a cancellation).                                                *)
(***************************************************************************)
EXTENDS Integers, Sequences, FiniteSets, TLC

\* ------------------------------------------------------------------ bounds
Interval == 2
MaxReset == 2
MaxAhead == 2
TTL == 2
QueueCap == 2
Timeout == 3
MaxValidatorIDs == 3  \* config.MaxValidatorIDs (1..100)
MaxReqIds == 4      \* longest ID list of a request
MaxPages == 2       \* most pages the server makes of one answer
Burst == 2          \* NewIPRateLimiter: requests per window
MaxIds == 3         \* longest ID list a client asks a key for
WorkerSecond == 2
MaxBatch == 2          \* Handler: IDs a request may hold (100 in the source)

\* ------------------------------------------------------- program constants
MaxRetries == 3
Second == 1
BackoffBase == 2
StatusOK == 200
StatusTooManyRequests == 429
StatusServerError == 500
StatusBadRequest == 400
StatusBadGateway == 502
MaxId == 1000000000    \* Handler: the largest validator id it accepts
MaxTokens == 30       \* IPRateLimit: maxTokens
StaleMinutes == 10    \* IPRateLimit: the janitor drops clients unseen this long
HashAbove == 10       \* generateCacheKey hashes the key of more IDs than this
WorkerRetries == 3
ResultCap == 1        \* queueRawRequest: the buffer of a request's result channel
LastStage == 3

Callers == {"c1", "c2"}
Goroutines == {"g1", "g2", "g3"}
Servers == {"g1", "g2"}
Clients == {"a", "b"}
Keys == {"k1", "k2"}
Values == {"v1", "v2"}
IdValues == {1, 2, 12}
Nil == "nil"
Errors == {"e1", "e2"}
Min(a, b) == IF a < b THEN a ELSE b
Max(a, b) == IF a > b THEN a ELSE b
Dec(x) == IF x > 0 THEN x - 1 ELSE 0
RECURSIVE Pow2(_)
Pow2(n) == IF n = 0 THEN 1 ELSE 2 * Pow2(n - 1)

\* Inputs of the upstream: the values its status and quota headers take.
Remainings == {0, 1}
ResetSeconds == 0..MaxReset
Statuses == {StatusOK, StatusTooManyRequests, StatusServerError}

VARIABLES
    tokens,       \* rate.Limiter.tokens advanced to now, in ticks of refill
    lastEvent,    \* rate.Limiter.lastEvent (ticks left)
    sinceCall,    \* time since the latest grant (lastCall) or the construction,
                  \* counted up to Interval
    nextAllowed,  \* GlobalRateLimiter.nextAllowed (ticks left)
    pc,           \* where each caller's doRequestWithRetry stands
    attempt,      \* the loop variable of doRequestWithRetry
    waitUntil,    \* WaitAdaptive's local copy of nextAllowed (ticks left)
    timeToAct,    \* the caller's rate.Reservation (ticks left)
    sleepUntil,   \* end of the caller's 429 sleep (ticks left)
    ctxDone,      \* the caller's context is cancelled
    lastErr,      \* doRequestWithRetry's lastErr
    result,       \* what the call returned
    \* history, read by the properties only
    sent,         \* HTTP attempts sent by the current call
    granted,      \* successful WaitAdaptive returns of the current call
    lastGap,      \* sinceCall as the latest successful Wait found it
    answered,     \* the status the current call's latest attempt was answered with
    maxDeadline,  \* the latest deadline any UpdateFromHeaders has set (ticks left)
    seenMax,      \* maxDeadline when the caller's WaitAdaptive started (ticks left)
    slept,        \* the caller's current WaitAdaptive slept for nextAllowed
    all429,       \* every attempt of the current call was answered 429
    transportErr, \* an attempt of the current call ended in a transport error
    prev429,      \* the previous attempt's 429: its number k, its reset, ticks left of
                  \* the reset and of the floor max(reset, Interval) or the backoff
    lastQuota,    \* the deadline the latest response's headers gave (ticks left)
    \* Cache
    items,        \* Cache.items: per key, the entry and the ticks left to its expiration
    mu,           \* Cache.mu: the goroutine holding the write lock, or "free"
    gpc,          \* where each goroutine's GetOrSet stands
    key,          \* the key of the goroutine's GetOrSet
    ret,          \* what the goroutine's GetOrSet returned: (value, err)
    \* history, read by the properties only
    invoked,      \* the goroutine's current GetOrSet has called its loader
    shared,       \* the outcome of the load that ended while the goroutine waited
    lastFail,     \* per key: the latest loader call for it returned an error
    \* MemoryCache
    store,        \* MemoryCache.store: per key, the item and the ticks left to expiresAt
    \* worker client
    reqCh,        \* Client.reqCh: the queued requests, oldest first
    rateCh,       \* the tokens in rateCh (capacity 1)
    tickerLeft,   \* ticks left to the next tick of the token ticker
    wpc,          \* where the worker goroutine stands
    req,          \* the request the worker is processing (NoReq: none)
    workerAttempt,\* the worker's attempt counter for req
    cooldownUntil,\* end of the cooldown a 429 set (ticks left)
    cpc,          \* where each client stands: between calls or inside queueRawRequest
    stage,        \* the call of its aggregate the client is at (0: none)
    deadline,     \* the client's time.After of queueRawRequest (ticks left)
    \* history, read by the properties only
    sinceSend,    \* ticks since the worker sent its latest attempt, up to WorkerSecond
    sendGap,      \* sinceSend as the latest attempt sent found it
    gone,         \* the client's HTTP request context ended while it waits
    begun,        \* an attempt of the client's current aggregate has been sent
    written,      \* results the worker has written to req.resp of its latest request
    unread,       \* results in the buffer of that channel, received by nobody
    \* quota headers
    headers,      \* the quota headers of the latest response, as they came
    prevAllowed,  \* nextAllowed as that response found it (ticks left)
    \* cache keys
    validatorIds, \* per client: the ID slice it passes to generateCacheKey
    cacheKey,     \* per client: the key generateCacheKey returned, or <<>>
    \* request validation
    valReq,       \* the request handed to validateValidatorRequest
    valErr,       \* what it returned: "pending", Nil, or the rule of the error
    \* IPRateLimit middleware
    ipClients,    \* the clients map: per IP absent, or tokens and the janitor
                  \* ticks since lastSeen
    fwdSince,     \* per IP: requests forwarded since the last janitor tick
    ipResp,       \* the latest answer since the last janitor tick
    \* IPRateLimiter
    limiters,     \* the limiters map: per IP the limiter of its entry, or 0
    buckets,      \* every limiter created so far: its IP and its tokens
    apc,          \* per goroutine: where it is in Allow, with which IP and
                  \* limiter, and what its latest Allow returned
    allowedCalls, \* per IP: the Allow calls that returned true so far
    \* GetValidators
    vpc,          \* where GetValidators is: idle, request, calling, done
    cursor,       \* its cursor ("" before the first page)
    allData,      \* its allData
    vret,         \* what it returned: the data and the kind of the error
    asked,        \* the cursors of the page requests of this call, in order
    got,          \* the pages this call decoded, in order
    \* validator.Handler
    hpc,          \* where the handler is: idle, overview, rewards, performance, done
    hreq,         \* the request it decoded: the ID list and the range
    missing,      \* its `missing`: the requested IDs the cache did not answer
    successMap,   \* its successMap: per ID the response, or Nil
    errsMap,      \* its errsMap: per ID the error message, or Nil
    hcalls,       \* the upstream calls this request has issued, in order
    hstatus       \* the status it answered with (0: not yet)

quotaVars == <<maxDeadline, lastQuota>>
limVars == <<tokens, lastEvent, sinceCall, nextAllowed>>
callVars == <<pc, attempt, waitUntil, timeToAct, sleepUntil, ctxDone, lastErr, result>>
histVars == <<sent, granted, lastGap, answered, quotaVars, seenMax, slept, all429,
              transportErr, prev429>>
govVars == <<limVars, callVars, histVars>>
cacheVars == <<items, mu, gpc, key, ret, invoked, shared, lastFail>>
memVars == <<store>>
tickerVars == <<tickerLeft, sinceSend, sendGap>>
respVars == <<written, unread>>
workerVars == <<reqCh, rateCh, wpc, req, workerAttempt, cooldownUntil, cpc, stage,
                deadline, gone, begun, tickerVars, respVars>>
headerVars == <<headers, prevAllowed>>
keyVars == <<validatorIds, cacheKey>>
valVars == <<valReq, valErr>>
ipVars == <<ipClients, fwdSince, ipResp>>
iplVars == <<limiters, buckets, apc, allowedCalls>>
pageVars == <<vpc, cursor, allData, vret, asked, got>>
handlerVars == <<hpc, hreq, missing, successMap, errsMap, hcalls, hstatus>>
pureVars == <<headerVars, keyVars, valVars, ipVars, iplVars, pageVars, handlerVars>>
outerVars == <<govVars, workerVars, pureVars>>
nonGovVars == <<cacheVars, memVars, workerVars, pureVars>>
nonCacheVars == <<govVars, memVars, workerVars, pureVars>>
nonWorkerVars == <<govVars, cacheVars, memVars, pureVars>>
vars == <<govVars, cacheVars, memVars, workerVars, pureVars>>

No429 == [k |-> 0, reset |-> 0, left |-> 0, floor |-> 0]
NoResult == [kind |-> "none", status |-> 0, cause |-> "none"]

\* ------------------------------------------------- golang.org/x/time/rate
\* Tokens are counted in ticks of refill: Interval ticks make one token, and
\* the burst of 1 caps the bucket at Interval.  A limiter is [tokens, lastEvent].
\* Limiter.advance over one tick.
LimAdvance(tk) == Min(Interval, tk + 1)

\* Limiter.reserveN(now, 1, InfDuration): always granted; the reservation is
\* due at the new lastEvent.
LimReserve(tk) ==
    LET left == tk - Interval
    IN [tokens |-> left, lastEvent |-> IF left < 0 THEN -left ELSE 0]

\* Reservation.CancelAt(now) of a reservation of one token due in `due` ticks.
LimCancel(tk, ev, due) ==
    LET restore == Interval - (ev - due) IN
    IF restore <= 0 THEN [tokens |-> tk, lastEvent |-> ev]
    ELSE [tokens |-> Min(Interval, tk + restore),
          lastEvent |-> IF due = ev /\ due - Interval >= 0 THEN due - Interval ELSE ev]

\* NewGlobalRateLimiter without the Allow() call: the bucket starts full.
NewLimiterKeepsToken == [tokens |-> Interval, lastEvent |-> 0]

\* NewGlobalRateLimiter: rate.NewLimiter(rate.Every(interval), 1), then
\* Allow() consumes the initial token.
NewLimiter == LimReserve(Interval)

\* ------------------------------------------------------------ cache keys
\* Strings are sequences of characters.
Digits == <<"0", "1", "2", "3", "4", "5", "6", "7", "8", "9">>

RECURSIVE ItoaNat(_)
ItoaNat(n) ==
    IF n < 10 THEN <<Digits[n + 1]>> ELSE ItoaNat(n \div 10) \o <<Digits[(n % 10) + 1]>>

\* strconv.Itoa: the decimal text of n.
Itoa(n) == IF n < 0 THEN <<"-">> \o ItoaNat(-n) ELSE ItoaNat(n)

\* s with x put before its first element greater than x.
RECURSIVE Insert(_, _)
Insert(s, x) ==
    IF s = <<>> THEN <<x>>
    ELSE IF x <= Head(s) THEN <<x>> \o s
    ELSE <<Head(s)>> \o Insert(Tail(s), x)

\* sort.Ints: s in ascending order.
RECURSIVE SortInts(_)
SortInts(s) == IF s = <<>> THEN <<>> ELSE Insert(SortInts(Tail(s)), Head(s))

\* strings.Join(ids, ",").
RECURSIVE Join(_)
Join(ids) ==
    IF ids = <<>> THEN <<>>
    ELSE IF Len(ids) = 1 THEN Head(ids)
    ELSE Head(ids) \o <<",">> \o Join(Tail(ids))

\* hex.EncodeToString(sha256.Sum256(key)[:8]): the digest is not computed, it
\* is the hashed text under a tag.
HashOf(text) == <<"sha256[:8]">> \o text

\* generateCacheKey that serializes the IDs in the order given.
GenerateCacheKeyUnsorted(ids) ==
    [key |-> <<"validators:">> \o Join([i \in 1..Len(ids) |-> Itoa(ids[i])]),
     validatorIds |-> ids]

\* generateCacheKey: the key, and the caller's slice after the call (the sort
\* works on a copy).
generateCacheKey(ids) ==
    LET sorted == SortInts(ids)
        joined == Join([i \in 1..Len(sorted) |-> Itoa(sorted[i])])
    IN [key |-> IF Len(ids) > HashAbove
                  THEN <<"validators:">> \o HashOf(joined)
                  ELSE <<"validators:">> \o joined,
        validatorIds |-> ids]

\* ------------------------------------------------------ request validation
\* The loop over req.ValidatorIds with its seen map: the rule the first
\* offending ID breaks, or Nil.
RECURSIVE CheckIds(_, _)
CheckIds(ids, seen) ==
    IF ids = <<>> THEN Nil
    ELSE IF Head(ids) < 0 THEN "non-negative"
    ELSE IF Head(ids) \in seen THEN "unique"
    ELSE CheckIds(Tail(ids), seen \cup {Head(ids)})

ValidChains == {"mainnet", "hoodi"}
ValidRanges == {"24h", "7d", "30d", "90d", "all_time"}

\* validateValidatorRequest that lets repeated IDs through.
ValidateAllowingDuplicates(r) ==
    IF Len(r.ValidatorIds) = 0 THEN "at least 1"
    ELSE IF Len(r.ValidatorIds) > MaxValidatorIDs THEN "at most"
    ELSE IF \E i \in 1..Len(r.ValidatorIds) : r.ValidatorIds[i] < 0 THEN "non-negative"
    ELSE IF r.Chain \notin ValidChains THEN "chain"
    ELSE IF r.get /\ r.Period \notin ValidRanges THEN "range"
    ELSE Nil

\* validateValidatorRequest: Nil, or the rule its ValidationError names.  The
\* GET variant (r.get) also validates the range.
validateValidatorRequest(r) ==
    IF Len(r.ValidatorIds) = 0 THEN "at least 1"
    ELSE IF Len(r.ValidatorIds) > MaxValidatorIDs THEN "at most"
    ELSE IF CheckIds(r.ValidatorIds, {}) # Nil THEN CheckIds(r.ValidatorIds, {})
    ELSE IF r.Chain = "" THEN "chain"
    ELSE IF r.Chain \notin ValidChains THEN "chain"
    ELSE IF r.get /\ r.Period \notin ValidRanges THEN "range"
    ELSE Nil

\* ------------------------------------------------- IPRateLimit middleware
IPs == {"10.0.0.1", "10.0.0.2"}
NoClient == [tokens |-> 0, present |-> FALSE, seenAgo |-> 0]
NoResp == [status |-> 0, ip |-> "none"]

\* r.RemoteAddr: a host with a port, or (port "") a host alone.
RemoteAddrs == [host : IPs, port : {"", "80", "81"}]

\* net.SplitHostPort(r.RemoteAddr) and its fallback: the host on success, the
\* whole address (here the host alone) on error.
ClientIP(addr) == addr.host

\* clients[ip], created with a full bucket when absent.
ClientInfo(ip) ==
    IF ipClients[ip].present THEN ipClients[ip]
    ELSE [tokens |-> MaxTokens, present |-> TRUE, seenAgo |-> 0]

\* A bucket test that lets an empty bucket through.
RejectsBelowZero(ci) == ci.tokens < 0

\* The handler's test: the request is answered 429.
Rejects(ci) == ci.tokens <= 0

\* ---------------------------------------------------------- IPRateLimiter
Idle == [pc |-> "idle", ret |-> "none", ip |-> "none", lim |-> 0]

\* rate.Limiter.Allow that never denies.
AllowsAlways(tk) == TRUE

\* rate.Limiter.Allow with no time elapsed since the limiter's last event:
\* a whole token is there to take.
Allows(tk) == tk >= 1

\* ---------------------------------------------------------- GetValidators
NoReturn == [data |-> <<>>, err |-> "none"]

\* A decoded page: its data, and Paging.NextCursor ("nil" for no Paging).
Pages == [data : {<<"v1">>, <<"v2">>}, next : {"nil", "", "n1", "n2"}]

\* The page names a next cursor.
HasNext(p) == ~(p.next = "nil" \/ p.next = "")

\* allData with the page put in front.
PrependPage(all, p) == p.data \o all

\* allData = append(allData, response.Data...).
AppendPage(all, p) == all \o p.data

\* A header of a response: absent (Header.Get returns ""), text that is not a
\* number, or the decimal text of the number n.
NoHeader == [n |-> 0, kind |-> "absent"]
HeaderValues ==
    {NoHeader, [n |-> 0, kind |-> "text"]} \cup [n : 0..MaxReset, kind : {"int"}]

\* strconv.Atoi of a header that is present.
Atoi(h) == [ok |-> h.kind = "int", val |-> IF h.kind = "int" THEN h.n ELSE 0]

\* One field of RateLimitInfo: the header's number when it is present and
\* parses, else the field keeps its zero value.
ParsedField(h) == IF h.kind # "absent" /\ Atoi(h).ok THEN Atoi(h).val ELSE 0

\* ParseRateLimitHeaders: ratelimit-reset is whole seconds.
ResetDuration(resetSec) == resetSec * Second

\* ParseRateLimitHeaders of a response with these three headers.
ParseRateLimitHeaders(hs) ==
    [Remaining |-> ParsedField(hs.remaining),
     Reset |-> ResetDuration(ParsedField(hs.reset)),
     Window |-> ResetDuration(ParsedField(hs.window))]

\* UpdateFromHeaders that drops what the headers say.
NextAllowedKept(cur, remaining, reset) == cur

\* UpdateFromHeaders that keeps the later of the two deadlines.
NextAllowedLatest(cur, remaining, reset) ==
    IF remaining = 0 /\ reset > 0 THEN Max(cur, reset) ELSE cur

\* UpdateFromHeaders: nextAllowed after the call.
NextAllowedAfter(cur, remaining, reset) ==
    IF remaining = 0 /\ reset > 0 THEN reset ELSE cur

\* The delay C20 requires between a 429 and the retry (the margin aside): the
\* header's reset, but no less than one refill interval; the backoff of the
\* attempt when no reset is given.  Recorded in prev429, read by C20 only.
RetryFloor(a, reset) ==
    IF reset > 0 THEN Max(reset, Interval) ELSE BackoffBase * Pow2(a) * Second

\* The safety buffer added to a header-given reset (100 ms), in whole ticks.
ResetBuffer == (100 * Second) \div 1000

\* A 429 sleep of no length.
RetryWaitNone(a, reset) == 0

\* The sleep after a 429 of attempt `a` (0-based) whose headers give `reset`:
\* 2<<a seconds unless the headers carry a reset.
RetryWait(a, reset) ==
    IF reset > 0 THEN reset + ResetBuffer ELSE BackoffBase * Pow2(a) * Second

\* ---------------------------------------------------------- worker client
\* A queued request: its caller, whether the caller still waits for it, whether
\* the caller gave up while it was still queued, and (history) how many
\* requests accepted before it the worker has not finished.
NoReq == [owner |-> "none", live |-> FALSE, early |-> FALSE, ahead |-> 0]

\* cooldownMargin (500 ms), in whole ticks of the worker's clock, which has
\* WorkerSecond ticks to the second.
CooldownMargin == (500 * WorkerSecond) \div 1000

\* The worker's wait after a 429: Retry-After in seconds, 1 s when absent
\* (retryAfter = 0), never less than 1 s.
RetryAfterWait(retryAfter) ==
    LET wait == IF retryAfter = 0 THEN 1 * WorkerSecond ELSE retryAfter * WorkerSecond
    IN IF wait < WorkerSecond THEN WorkerSecond ELSE wait

\* ------------------------------------------------------------------ Cache
NoItem == [left |-> 0, present |-> FALSE, value |-> Nil]
NoShare == [kind |-> "none", err |-> Nil, value |-> Nil]
NoRet == [err |-> Nil, value |-> Nil]
NoKey == "k1"

\* An expiry test that never finds an entry expired.
ExpiredNever(item) == FALSE

\* time.Now().After(item.expiration): `left` is the ticks left to the
\* expiration, 0 at the very instant, -1 once it is past.
Expired(item) == item.left < 0

\* A sweep that deletes every entry it finds.
SweptAlways(item) == item.present

\* cleanup and janitor delete the entry: now.After(expiration).
Swept(item) == item.present /\ Expired(item)

\* MemoryCache.Get's answer for an item as read: (value, true) unless it is
\* absent or past expiresAt.
MemGet(k) ==
    IF store[k].present /\ ~Expired(store[k])
    THEN [ok |-> TRUE, value |-> store[k].value]
    ELSE [ok |-> FALSE, value |-> Nil]

\* Cache.Get under the read lock: (value, true) for an entry not yet past its
\* expiration, else (nil, false).
Get(k) ==
    IF items[k].present /\ ~Expired(items[k])
    THEN [ok |-> TRUE, value |-> items[k].value]
    ELSE [ok |-> FALSE, value |-> Nil]

\* The double-check of GetOrSet under the write lock:
\* exists && time.Now().Before(item.expiration).
Fresh(k) == items[k].present /\ items[k].left > 0

\* The cacheItem stored for a loaded value: expiration = time.Now().Add(c.ttl).
NewItem(v) == [left |-> TTL, present |-> TRUE, value |-> v]

\* ------------------------------------------------------- validator.Handler
\* The IDs a request may name (0 is below the smallest the handler accepts),
\* the ID lists, and the ranges: none, an allowed one, one not allowed.  An
\* empty successMap or errsMap is NoSuccess.
HandlerIds == {0, 1, 2}
ValidIds == {id \in HandlerIds : id >= 1 /\ id <= MaxId}
BatchLists == UNION {[1..n -> HandlerIds] : n \in 0..(MaxBatch + 1)}
RangeInputs == {"", "7d", "1y"}
NoHandlerReq == [ids |-> <<>>, rng |-> ""]
NoSuccess == [id \in ValidIds |-> Nil]
NoData == "no data from upstream"

\* The windows the handler's switch on the range lets through.
EvalWindows == {"24h", "7d", "30d", "90d", "all", "all_time", "alltime", "all-time"}

\* "validator:" + fmt.Sprintf("%d", id).
CacheKeyOf(id) == IF id = 1 THEN "k1" ELSE "k2"

\* The `seen` map once the loop over req.ValidatorId is through: the distinct
\* IDs of the request.
Distinct(ids) == {ids[i] : i \in 1..Len(ids)}

\* ------------------------------------------------------------------- Init
GovInit ==
    /\ tokens = NewLimiter.tokens
    /\ lastEvent = NewLimiter.lastEvent
    /\ sinceCall = 0
    /\ nextAllowed = 0
    /\ pc = [c \in Callers |-> "idle"]
    /\ attempt = [c \in Callers |-> 0]
    /\ waitUntil = [c \in Callers |-> 0]
    /\ timeToAct = [c \in Callers |-> 0]
    /\ sleepUntil = [c \in Callers |-> 0]
    /\ ctxDone = [c \in Callers |-> FALSE]
    /\ lastErr = [c \in Callers |-> "none"]
    /\ result = [c \in Callers |-> NoResult]
    /\ sent = [c \in Callers |-> 0]
    /\ granted = [c \in Callers |-> 0]
    /\ lastGap = Interval
    /\ answered = [c \in Callers |-> 0]
    /\ maxDeadline = 0
    /\ lastQuota = 0
    /\ seenMax = [c \in Callers |-> 0]
    /\ slept = [c \in Callers |-> FALSE]
    /\ all429 = [c \in Callers |-> TRUE]
    /\ transportErr = [c \in Callers |-> FALSE]
    /\ prev429 = [c \in Callers |-> No429]

\* cache.New: no items, the lock free.
CacheInit ==
    /\ items = [k \in Keys |-> NoItem]
    /\ mu = "free"
    /\ gpc = [g \in Goroutines |-> "idle"]
    /\ key = [g \in Goroutines |-> NoKey]
    /\ ret = [g \in Goroutines |-> NoRet]
    /\ invoked = [g \in Goroutines |-> FALSE]
    /\ shared = [g \in Goroutines |-> NoShare]
    /\ lastFail = [k \in Keys |-> FALSE]

\* NewMemoryCache: an empty store.
MemInit == store = [k \in Keys |-> NoItem]

\* NewClient and startWorker: an empty queue, no token yet, the worker at
\* `for req := range c.reqCh`.
WorkerInit ==
    /\ reqCh = <<>>
    /\ rateCh = 0
    /\ tickerLeft = WorkerSecond
    /\ sinceSend = WorkerSecond
    /\ sendGap = WorkerSecond
    /\ wpc = "recv"
    /\ req = NoReq
    /\ workerAttempt = 0
    /\ cooldownUntil = 0
    /\ cpc = [c \in Clients |-> "idle"]
    /\ stage = [c \in Clients |-> 0]
    /\ deadline = [c \in Clients |-> 0]
    /\ gone = [c \in Clients |-> FALSE]
    /\ begun = [c \in Clients |-> FALSE]
    /\ written = 0
    /\ unread = 0

\* No response has been received yet.
HeaderInit ==
    /\ headers = [reset |-> NoHeader, remaining |-> NoHeader, window |-> NoHeader]
    /\ prevAllowed = 0

\* No client has asked for a key yet.
KeyInit ==
    /\ validatorIds = [c \in Clients |-> <<>>]
    /\ cacheKey = [c \in Clients |-> <<>>]

\* The first request is an empty POST body that has not been validated.
ValInit ==
    /\ valReq = [ValidatorIds |-> <<>>, Chain |-> "", get |-> FALSE, Period |-> ""]
    /\ valErr = "pending"

\* IPRateLimit(next): an empty clients map.
IPInit ==
    /\ ipClients = [ip \in IPs |-> NoClient]
    /\ fwdSince = [ip \in IPs |-> 0]
    /\ ipResp = NoResp

\* NewIPRateLimiter(Burst, window): no entry, no call.
IPLInit ==
    /\ limiters = [ip \in IPs |-> 0]
    /\ buckets = <<>>
    /\ apc = [g \in Servers |-> Idle]
    /\ allowedCalls = [ip \in IPs |-> 0]

\* GetValidators has not been called.
PageInit ==
    /\ vpc = "idle"
    /\ cursor = ""
    /\ allData = <<>>
    /\ vret = NoReturn
    /\ asked = <<>>
    /\ got = <<>>

\* No request has reached the handler yet.
HandlerInit ==
    /\ hpc = "idle"
    /\ hreq = NoHandlerReq
    /\ missing = {}
    /\ successMap = NoSuccess
    /\ errsMap = NoSuccess
    /\ hcalls = <<>>
    /\ hstatus = 0

Init ==
    /\ GovInit /\ CacheInit /\ MemInit /\ WorkerInit
    /\ HeaderInit /\ KeyInit /\ ValInit /\ IPInit /\ IPLInit /\ PageInit /\ HandlerInit

\* ------------------------------------------------------------------ clock
\* The caller can take a step of its own at the current instant.
Runnable(c) ==
    \/ pc[c] \in {"loop", "wait"}
    \/ pc[c] = "adaptSleep" /\ (waitUntil[c] = 0 \/ ctxDone[c])
    \/ pc[c] = "tokenWait" /\ (timeToAct[c] = 0 \/ ctxDone[c])
    \/ pc[c] = "retrySleep" /\ (sleepUntil[c] = 0 \/ ctxDone[c])

\* One second passes.
Tick ==
    /\ \A c \in Callers : ~Runnable(c)
    /\ tokens' = LimAdvance(tokens)
    /\ lastEvent' = Dec(lastEvent)
    /\ sinceCall' = Min(Interval, sinceCall + 1)
    /\ nextAllowed' = Dec(nextAllowed)
    /\ maxDeadline' = Dec(maxDeadline)
    /\ lastQuota' = Dec(lastQuota)
    /\ waitUntil' = [c \in Callers |-> Dec(waitUntil[c])]
    /\ timeToAct' = [c \in Callers |-> Dec(timeToAct[c])]
    /\ sleepUntil' = [c \in Callers |-> Dec(sleepUntil[c])]
    /\ seenMax' = [c \in Callers |-> Dec(seenMax[c])]
    /\ prev429' = [c \in Callers |->
                      [prev429[c] EXCEPT !.left = Dec(@), !.floor = Dec(@)]]
    /\ UNCHANGED <<pc, attempt, ctxDone, lastErr, result, sent, granted, lastGap,
                   answered, slept, all429, transportErr>>
    /\ UNCHANGED nonGovVars

\* A caller's context is cancelled (or its deadline passes) during a call.
Cancel(c) ==
    /\ pc[c] \notin {"idle", "done"}
    /\ ~ctxDone[c]
    /\ ctxDone' = [ctxDone EXCEPT ![c] = TRUE]
    /\ UNCHANGED <<limVars, pc, attempt, waitUntil, timeToAct, sleepUntil,
                   lastErr, result, histVars>>
    /\ UNCHANGED nonGovVars

\* ------------------------------------------------ Client.doRequestWithRetry
\* The caller's position and locals after a step.
SetCall(c, p, a, wu, tta, su, le) ==
    /\ pc' = [pc EXCEPT ![c] = p]
    /\ attempt' = [attempt EXCEPT ![c] = a]
    /\ waitUntil' = [waitUntil EXCEPT ![c] = wu]
    /\ timeToAct' = [timeToAct EXCEPT ![c] = tta]
    /\ sleepUntil' = [sleepUntil EXCEPT ![c] = su]
    /\ lastErr' = [lastErr EXCEPT ![c] = le]

\* A caller enters doRequestWithRetry (attempt := 0) with a live context.
\* Cancelled reservations behind a later one are not given back, so new calls
\* are admitted only while the limiter is reserved at most MaxAhead ahead.
StartCall(c) ==
    /\ pc[c] \in {"idle", "done"}
    /\ lastEvent <= MaxAhead
    /\ SetCall(c, "loop", 0, 0, 0, 0, "none")
    /\ ctxDone' = [ctxDone EXCEPT ![c] = FALSE]
    /\ result' = [result EXCEPT ![c] = NoResult]
    /\ sent' = [sent EXCEPT ![c] = 0]
    /\ granted' = [granted EXCEPT ![c] = 0]
    /\ answered' = [answered EXCEPT ![c] = 0]
    /\ seenMax' = [seenMax EXCEPT ![c] = 0]
    /\ slept' = [slept EXCEPT ![c] = FALSE]
    /\ all429' = [all429 EXCEPT ![c] = TRUE]
    /\ transportErr' = [transportErr EXCEPT ![c] = FALSE]
    /\ prev429' = [prev429 EXCEPT ![c] = No429]
    /\ UNCHANGED <<limVars, lastGap, quotaVars>>

Start(c) == StartCall(c) /\ UNCHANGED nonGovVars

\* The call returns and its locals are gone.  `kind` is "ok" (resp, body, nil:
\* the response as it came, whatever its status but 429), "limiter" (the
\* limiter wait failed), "ctx" (cancelled in the 429 sleep) or "maxretries"
\* (max retries exceeded, wrapping lastErr = cause).
Return(c, kind, status, cause) ==
    /\ SetCall(c, "done", 0, 0, 0, 0, "none")
    /\ ctxDone' = [ctxDone EXCEPT ![c] = FALSE]
    /\ result' = [result EXCEPT ![c] = [kind |-> kind, status |-> status, cause |-> cause]]
    /\ seenMax' = [seenMax EXCEPT ![c] = 0]
    /\ slept' = [slept EXCEPT ![c] = FALSE]
    /\ prev429' = [prev429 EXCEPT ![c] = IF kind = "ok" THEN prev429[c] ELSE No429]

\* `continue` taken as `return`: the call ends with lastErr = le.
ContinueEndsCall(c, le, p429) ==
    Return(c, "maxretries", 0, le)

\* `continue` after lastErr = le: attempt++, then the loop condition
\* attempt <= maxRetries; after the loop, max retries exceeded.  p429 is the
\* 429 this attempt ended with, if it did.
Continue(c, le, p429) ==
    IF attempt[c] + 1 <= MaxRetries
    THEN /\ SetCall(c, "loop", attempt[c] + 1, 0, 0, 0, le)
         /\ seenMax' = [seenMax EXCEPT ![c] = 0]
         /\ slept' = [slept EXCEPT ![c] = FALSE]
         /\ prev429' = [prev429 EXCEPT ![c] = p429]
         /\ UNCHANGED <<ctxDone, result>>
    ELSE Return(c, "maxretries", 0, le)

\* The limiter wait failed, and the attempt is sent all the same.
DispatchUngranted(c) ==
    /\ SetCall(c, "inflight", attempt[c], waitUntil[c], 0, 0, lastErr[c])
    /\ sent' = [sent EXCEPT ![c] = sent[c] + 1]
    /\ UNCHANGED <<sinceCall, lastGap, granted, ctxDone, result, seenMax, slept, prev429>>

\* The limiter wait failed: return nil, nil, "rate limiter: ...".
LimiterError(c) ==
    /\ Return(c, "limiter", 0, "ctx")
    /\ UNCHANGED <<sinceCall, lastGap, granted, sent>>

\* WaitAdaptive returned nil (g.Wait set lastCall) and httpClient.Do sends
\* the attempt.
Dispatch(c) ==
    /\ SetCall(c, "inflight", attempt[c], waitUntil[c], 0, 0, lastErr[c])
    /\ sinceCall' = 0
    /\ lastGap' = sinceCall
    /\ granted' = [granted EXCEPT ![c] = granted[c] + 1]
    /\ sent' = [sent EXCEPT ![c] = sent[c] + 1]
    /\ UNCHANGED <<ctxDone, result, seenMax, slept, prev429>>

\* WaitAdaptive that reads nextAllowed and goes on to g.Wait without sleeping.
WaitAdaptiveNoSleep(c) ==
    /\ pc[c] = "loop"
    /\ SetCall(c, "wait", attempt[c], nextAllowed, 0, 0, lastErr[c])
    /\ seenMax' = [seenMax EXCEPT ![c] = maxDeadline]
    /\ slept' = [slept EXCEPT ![c] = nextAllowed > 0]
    /\ UNCHANGED <<limVars, ctxDone, result, sent, granted, lastGap, answered,
                   quotaVars, all429, transportErr, prev429>>
    /\ UNCHANGED nonGovVars

\* WaitAdaptive, first half: copy nextAllowed under the mutex and decide
\* whether to sleep until it.
WaitAdaptiveEnter(c) ==
    /\ pc[c] = "loop"
    /\ SetCall(c, IF nextAllowed > 0 THEN "adaptSleep" ELSE "wait",
               attempt[c], nextAllowed, 0, 0, lastErr[c])
    /\ seenMax' = [seenMax EXCEPT ![c] = maxDeadline]
    /\ slept' = [slept EXCEPT ![c] = nextAllowed > 0]
    /\ UNCHANGED <<limVars, ctxDone, result, sent, granted, lastGap, answered,
                   quotaVars, all429, transportErr, prev429>>
    /\ UNCHANGED nonGovVars

\* time.After(waitDuration) fires.
AdaptWake(c) ==
    /\ pc[c] = "adaptSleep"
    /\ waitUntil[c] = 0
    /\ pc' = [pc EXCEPT ![c] = "wait"]
    /\ UNCHANGED <<limVars, attempt, waitUntil, timeToAct, sleepUntil, ctxDone,
                   lastErr, result, histVars>>
    /\ UNCHANGED nonGovVars

\* ctx.Done() wins the select of WaitAdaptive.
AdaptCancel(c) ==
    /\ pc[c] = "adaptSleep"
    /\ ctxDone[c]
    /\ LimiterError(c)
    /\ UNCHANGED <<tokens, lastEvent, nextAllowed, answered, quotaVars, all429,
                   transportErr>>
    /\ UNCHANGED nonGovVars

\* g.Wait -> limiter.Wait: fail on a done context, else reserve a token and
\* return at once when it is due now.
WaitReserve(c) ==
    /\ pc[c] = "wait"
    /\ IF ctxDone[c]
       THEN /\ LimiterError(c)
            /\ UNCHANGED <<tokens, lastEvent>>
       ELSE LET l == LimReserve(tokens) IN
            /\ tokens' = l.tokens
            /\ lastEvent' = l.lastEvent
            /\ IF l.lastEvent = 0
               THEN Dispatch(c)
               ELSE /\ SetCall(c, "tokenWait", attempt[c], waitUntil[c], l.lastEvent,
                               0, lastErr[c])
                    /\ UNCHANGED <<sinceCall, lastGap, granted, sent, ctxDone, result,
                                   seenMax, slept, prev429>>
    /\ UNCHANGED <<nextAllowed, answered, quotaVars, all429, transportErr>>
    /\ UNCHANGED nonGovVars

\* The reservation's timer fires: limiter.Wait returns nil.
TokenGrant(c) ==
    /\ pc[c] = "tokenWait"
    /\ timeToAct[c] = 0
    /\ Dispatch(c)
    /\ UNCHANGED <<tokens, lastEvent, nextAllowed, answered, quotaVars, all429,
                   transportErr>>
    /\ UNCHANGED nonGovVars

\* ctx.Done() wins the select of limiter.Wait: the reservation is cancelled.
TokenCancel(c) ==
    /\ pc[c] = "tokenWait"
    /\ ctxDone[c]
    /\ LET l == LimCancel(tokens, lastEvent, timeToAct[c]) IN
       /\ tokens' = l.tokens
       /\ lastEvent' = l.lastEvent
    /\ LimiterError(c)
    /\ UNCHANGED <<nextAllowed, answered, quotaVars, all429, transportErr>>
    /\ UNCHANGED nonGovVars

\* httpClient.Do returned an error: lastErr is set and the loop continues.
TransportError(c) ==
    /\ pc[c] = "inflight"
    /\ transportErr' = [transportErr EXCEPT ![c] = TRUE]
    /\ all429' = [all429 EXCEPT ![c] = FALSE]
    /\ answered' = [answered EXCEPT ![c] = 0]
    /\ Continue(c, "http", No429)
    /\ UNCHANGED <<limVars, sent, granted, lastGap, quotaVars>>
    /\ UNCHANGED nonGovVars

\* Every status but 200 taken as a reason to sleep and retry.
RetryableAnyError(status) == status # StatusOK

\* doRequestWithRetry retries a response only when its status is 429.
Retryable(status) == status = StatusTooManyRequests

\* What GetValidators makes of doRequestWithRetry's result: an error of the
\* call is wrapped ("fetch"), a response whose status is not 200 becomes an
\* error carrying that status ("status"), a 200 is decoded ("none").
GetValidatorsErr(res) ==
    IF res.kind # "ok" THEN [kind |-> "fetch", status |-> 0]
    ELSE IF res.status # StatusOK THEN [kind |-> "status", status |-> res.status]
    ELSE [kind |-> "none", status |-> 0]

\* A response arrives: UpdateFromHeaders, then 429 -> sleep and retry, any
\* other status -> return resp, body, nil.
Respond(c, status, remaining, resetSec) ==
    LET reset == ResetDuration(resetSec) IN
    /\ pc[c] = "inflight"
    /\ nextAllowed' = NextAllowedAfter(nextAllowed, remaining, reset)
    /\ maxDeadline' = IF remaining = 0 /\ reset > 0
                      THEN Max(maxDeadline, reset) ELSE maxDeadline
    /\ lastQuota' = IF remaining = 0 /\ reset > 0 THEN reset ELSE lastQuota
    /\ IF Retryable(status)
       THEN /\ SetCall(c, "retrySleep", attempt[c], 0, 0,
                       RetryWait(attempt[c], reset), lastErr[c])
            /\ seenMax' = [seenMax EXCEPT ![c] = 0]
            /\ slept' = [slept EXCEPT ![c] = FALSE]
            /\ prev429' = [prev429 EXCEPT ![c] =
                             [k |-> sent[c], reset |-> reset, left |-> reset,
                              floor |-> RetryFloor(attempt[c], reset)]]
            /\ UNCHANGED <<ctxDone, result, all429>>
       ELSE /\ Return(c, "ok", status, "none")
            /\ all429' = [all429 EXCEPT ![c] = FALSE]
    /\ answered' = [answered EXCEPT ![c] = status]
    /\ UNCHANGED <<tokens, lastEvent, sinceCall, sent, granted, lastGap, transportErr>>
    /\ UNCHANGED nonGovVars

\* time.After(waitTime) fires: lastErr is set and the loop continues.
RetryWake(c) ==
    /\ pc[c] = "retrySleep"
    /\ sleepUntil[c] = 0
    /\ Continue(c, "429", prev429[c])
    /\ UNCHANGED <<limVars, sent, granted, lastGap, answered, quotaVars, all429,
                   transportErr>>
    /\ UNCHANGED nonGovVars

\* ctx.Done() wins the select of the 429 sleep: return nil, nil, ctx.Err().
RetryCancel(c) ==
    /\ pc[c] = "retrySleep"
    /\ ctxDone[c]
    /\ Return(c, "ctx", 0, "ctx")
    /\ UNCHANGED <<limVars, sent, granted, lastGap, answered, quotaVars, all429,
                   transportErr>>
    /\ UNCHANGED nonGovVars

Next ==
    \/ Tick
    \/ \E c \in Callers : Start(c)
    \/ \E c \in Callers : Cancel(c)
    \/ \E c \in Callers : WaitAdaptiveEnter(c)
    \/ \E c \in Callers : AdaptWake(c)
    \/ \E c \in Callers : AdaptCancel(c)
    \/ \E c \in Callers : WaitReserve(c)
    \/ \E c \in Callers : TokenGrant(c)
    \/ \E c \in Callers : TokenCancel(c)
    \/ \E c \in Callers : TransportError(c)
    \/ \E c \in Callers, st \in Statuses, rem \in Remainings, rs \in ResetSeconds :
          Respond(c, st, rem, rs)
    \/ \E c \in Callers : RetryWake(c)
    \/ \E c \in Callers : RetryCancel(c)

Spec == Init /\ [][Next]_vars

\* ----------------------------------------------------------- Cache.GetOrSet
\* The goroutine can take a step of its own at the current instant.
CanStep(g) == gpc[g] \in {"get", "lock"} /\ mu = "free"

\* One second passes for the cache: every expiration comes one tick nearer.
CacheTick ==
    /\ \A g \in Goroutines : ~CanStep(g)
    /\ \E k \in Keys : items[k].present /\ items[k].left >= 0
    /\ items' = [k \in Keys |->
                   IF items[k].present
                   THEN [items[k] EXCEPT !.left = IF @ >= 0 THEN @ - 1 ELSE @]
                   ELSE items[k]]
    /\ UNCHANGED <<mu, gpc, key, ret, invoked, shared, lastFail, nonCacheVars>>

\* A goroutine calls GetOrSet(k, loader).
GetOrSetCall(g, k) ==
    /\ gpc[g] \in {"idle", "done"}
    /\ gpc' = [gpc EXCEPT ![g] = "get"]
    /\ key' = [key EXCEPT ![g] = k]
    /\ ret' = [ret EXCEPT ![g] = NoRet]
    /\ UNCHANGED <<items, mu, invoked, shared, lastFail, nonCacheVars>>

\* GetOrSet returns (value, err) and the goroutine's locals are gone.
GetOrSetReturn(g, value, err) ==
    /\ gpc' = [gpc EXCEPT ![g] = "done"]
    /\ ret' = [ret EXCEPT ![g] = [err |-> err, value |-> value]]
    /\ key' = [key EXCEPT ![g] = NoKey]
    /\ invoked' = [invoked EXCEPT ![g] = FALSE]

\* c.Get(key) inside GetOrSet: a hit returns, a miss goes on to c.mu.Lock().
\* RLock waits while a writer holds the lock.
GetOrSetGet(g) ==
    /\ gpc[g] = "get"
    /\ mu = "free"
    /\ IF Get(key[g]).ok
       THEN /\ GetOrSetReturn(g, Get(key[g]).value, Nil)
            /\ shared' = [shared EXCEPT ![g] = NoShare]
       ELSE /\ gpc' = [gpc EXCEPT ![g] = "lock"]
            /\ UNCHANGED <<ret, key, invoked, shared>>
    /\ UNCHANGED <<items, mu, lastFail, nonCacheVars>>

\* c.mu.Lock() is acquired (after the readers the last writer kept waiting),
\* then the double-check: a fresh entry is returned and the lock released,
\* else the loader is called with the lock held.
GetOrSetLock(g) ==
    /\ gpc[g] = "lock"
    /\ mu = "free"
    /\ \A h \in Goroutines : gpc[h] # "get"
    /\ IF Fresh(key[g])
       THEN /\ GetOrSetReturn(g, items[key[g]].value, Nil)
            /\ shared' = [shared EXCEPT ![g] = NoShare]
            /\ UNCHANGED mu
       ELSE /\ gpc' = [gpc EXCEPT ![g] = "loading"]
            /\ mu' = g
            /\ invoked' = [invoked EXCEPT ![g] = TRUE]
            /\ UNCHANGED <<ret, key, shared>>
    /\ UNCHANGED <<items, lastFail, nonCacheVars>>

\* The goroutines inside GetOrSet(k) that wait for the lock g holds.
Waiters(g, k) ==
    {h \in Goroutines \ {g} : gpc[h] \in {"get", "lock"} /\ key[h] = k}

\* g's load ends: its waiters that have not seen a load end yet note the
\* outcome, and g's own note is gone with its call.
Share(g, outcome) ==
    shared' = [h \in Goroutines |->
                 IF h \in Waiters(g, key[g]) /\ shared[h].kind = "none"
                 THEN outcome
                 ELSE IF h = g THEN NoShare ELSE shared[h]]

\* The loader returns an error and GetOrSet stores a nil entry for the key.
LoaderFailsStoresNil(g, e) ==
    /\ gpc[g] = "loading"
    /\ items' = [items EXCEPT ![key[g]] = NewItem(Nil)]
    /\ mu' = "free"
    /\ GetOrSetReturn(g, Nil, e)
    /\ Share(g, [kind |-> "err", err |-> e, value |-> Nil])
    /\ lastFail' = [lastFail EXCEPT ![key[g]] = TRUE]
    /\ UNCHANGED nonCacheVars

\* The loader returns the error e: return nil, err; the deferred Unlock runs.
LoaderFails(g, e) ==
    /\ gpc[g] = "loading"
    /\ mu' = "free"
    /\ GetOrSetReturn(g, Nil, e)
    /\ Share(g, [kind |-> "err", err |-> e, value |-> Nil])
    /\ lastFail' = [lastFail EXCEPT ![key[g]] = TRUE]
    /\ UNCHANGED <<items, nonCacheVars>>

\* The loader returns the value v: it is stored with the default TTL and
\* returned; the deferred Unlock runs.
LoaderReturns(g, v) ==
    /\ gpc[g] = "loading"
    /\ items' = [items EXCEPT ![key[g]] = NewItem(v)]
    /\ mu' = "free"
    /\ GetOrSetReturn(g, v, Nil)
    /\ Share(g, [kind |-> "ok", err |-> Nil, value |-> v])
    /\ lastFail' = [lastFail EXCEPT ![key[g]] = FALSE]
    /\ UNCHANGED nonCacheVars

\* Cache.cleanup, run by cleanupLoop's ticker: under the write lock, every
\* entry past its expiration is deleted.
Cleanup ==
    /\ mu = "free"
    /\ \E k \in Keys : Swept(items[k])
    /\ items' = [k \in Keys |-> IF Swept(items[k]) THEN NoItem ELSE items[k]]
    /\ UNCHANGED <<mu, gpc, key, ret, invoked, shared, lastFail, nonCacheVars>>

NextCache ==
    \/ CacheTick
    \/ \E g \in Goroutines, k \in Keys : GetOrSetCall(g, k)
    \/ \E g \in Goroutines : GetOrSetGet(g)
    \/ \E g \in Goroutines : GetOrSetLock(g)
    \/ \E g \in Goroutines, e \in Errors : LoaderFails(g, e)
    \/ \E g \in Goroutines, v \in Values : LoaderReturns(g, v)
    \/ Cleanup

SpecCache == Init /\ [][NextCache]_vars

\* ------------------------------------- GetValidatorData, MemoryCache, Handler
\* The goroutine is inside a cache operation it can finish at the current
\* instant.
InCache(g) == gpc[g] \in {"svcGet", "memRead", "memDelete"}

\* One second passes for both caches.
ServiceTick ==
    /\ \A g \in Goroutines : ~InCache(g)
    /\ \E k \in Keys : \/ items[k].present /\ items[k].left >= 0
                       \/ store[k].present /\ store[k].left >= 0
    /\ items' = [k \in Keys |->
                   IF items[k].present
                   THEN [items[k] EXCEPT !.left = IF @ >= 0 THEN @ - 1 ELSE @]
                   ELSE items[k]]
    /\ store' = [k \in Keys |->
                   IF store[k].present
                   THEN [store[k] EXCEPT !.left = IF @ >= 0 THEN @ - 1 ELSE @]
                   ELSE store[k]]
    /\ UNCHANGED <<mu, gpc, key, ret, invoked, shared, lastFail, outerVars>>

\* A goroutine calls GetValidatorData for the ID set with cache key k.
GetValidatorDataCall(g, k) ==
    /\ g \in Servers
    /\ gpc[g] \in {"idle", "done"}
    /\ gpc' = [gpc EXCEPT ![g] = "svcGet"]
    /\ key' = [key EXCEPT ![g] = k]
    /\ ret' = [ret EXCEPT ![g] = NoRet]
    /\ UNCHANGED <<items, mu, invoked, shared, lastFail, nonCacheVars>>

\* s.cache.Get(cacheKey): a hit is returned, a miss goes on to
\* fetchAndAggregate.
GetValidatorDataGet(g) ==
    /\ gpc[g] = "svcGet"
    /\ mu = "free"
    /\ IF Get(key[g]).ok
       THEN GetOrSetReturn(g, Get(key[g]).value, Nil)
       ELSE /\ gpc' = [gpc EXCEPT ![g] = "fetch"]
            /\ UNCHANGED <<ret, key, invoked>>
    /\ UNCHANGED <<items, mu, shared, lastFail, nonCacheVars>>

\* s.cache.Set that leaves an entry already stored for the key in place.
FetchReturnsKeepsEntry(g, v) ==
    /\ gpc[g] = "fetch"
    /\ mu = "free"
    /\ items' = IF items[key[g]].present THEN items
                ELSE [items EXCEPT ![key[g]] = NewItem(v)]
    /\ GetOrSetReturn(g, v, Nil)
    /\ UNCHANGED <<mu, shared, lastFail, nonCacheVars>>

\* fetchAndAggregate returns the response v: s.cache.Set(cacheKey, response).
FetchReturns(g, v) ==
    /\ gpc[g] = "fetch"
    /\ mu = "free"
    /\ items' = [items EXCEPT ![key[g]] = NewItem(v)]
    /\ GetOrSetReturn(g, v, Nil)
    /\ UNCHANGED <<mu, shared, lastFail, nonCacheVars>>

\* fetchAndAggregate returns an error: GetValidatorData returns it.
FetchFails(g, e) ==
    /\ gpc[g] = "fetch"
    /\ GetOrSetReturn(g, Nil, e)
    /\ UNCHANGED <<items, mu, shared, lastFail, nonCacheVars>>

\* The handler looks a validator up: memCache.Get(cacheKey).
HandlerCall(g, k) ==
    /\ g \in Servers
    /\ gpc[g] \in {"idle", "done"}
    /\ gpc' = [gpc EXCEPT ![g] = "memRead"]
    /\ key' = [key EXCEPT ![g] = k]
    /\ ret' = [ret EXCEPT ![g] = NoRet]
    /\ UNCHANGED <<items, mu, invoked, shared, lastFail, nonCacheVars>>

\* MemoryCache.Get, first half: the item is read under the read lock; no item
\* -> (nil, false); an item past expiresAt -> on to the delete; else
\* (value, true), which the handler answers with.
MemoryCacheGet(g) ==
    /\ gpc[g] = "memRead"
    /\ IF ~store[key[g]].present
       THEN /\ gpc' = [gpc EXCEPT ![g] = "memFetch"]
            /\ UNCHANGED <<ret, key, invoked>>
       ELSE IF Expired(store[key[g]])
       THEN /\ gpc' = [gpc EXCEPT ![g] = "memDelete"]
            /\ UNCHANGED <<ret, key, invoked>>
       ELSE GetOrSetReturn(g, store[key[g]].value, Nil)
    /\ UNCHANGED <<items, mu, shared, lastFail, nonCacheVars>>

\* MemoryCache.Get, second half: under the write lock the key is deleted,
\* whatever it holds by now, and (nil, false) is returned: the id is missing.
MemoryCacheDelete(g) ==
    /\ gpc[g] = "memDelete"
    /\ store' = [store EXCEPT ![key[g]] = NoItem]
    /\ gpc' = [gpc EXCEPT ![g] = "memFetch"]
    /\ UNCHANGED <<items, mu, key, ret, invoked, shared, lastFail, outerVars>>

\* BatchFetchOverview returns the overview v: memCache.Set(cacheKey, resp).
OverviewReturns(g, v) ==
    /\ gpc[g] = "memFetch"
    /\ store' = [store EXCEPT ![key[g]] = NewItem(v)]
    /\ GetOrSetReturn(g, v, Nil)
    /\ UNCHANGED <<items, mu, shared, lastFail, outerVars>>

\* BatchFetchOverview returns an error: the id is answered with it.
OverviewFails(g, e) ==
    /\ gpc[g] = "memFetch"
    /\ GetOrSetReturn(g, Nil, e)
    /\ UNCHANGED <<items, mu, shared, lastFail, nonCacheVars>>

\* MemoryCache.janitor, on its ticker: under the write lock every item past
\* expiresAt is deleted.
Janitor ==
    /\ \E k \in Keys : Swept(store[k])
    /\ store' = [k \in Keys |-> IF Swept(store[k]) THEN NoItem ELSE store[k]]
    /\ UNCHANGED <<cacheVars, outerVars>>

NextService ==
    \/ ServiceTick
    \/ \E g \in Goroutines, k \in Keys : GetValidatorDataCall(g, k)
    \/ \E g \in Goroutines : GetValidatorDataGet(g)
    \/ \E g \in Goroutines, v \in Values : FetchReturns(g, v)
    \/ \E g \in Goroutines, e \in Errors : FetchFails(g, e)
    \/ \E g \in Goroutines, k \in Keys : HandlerCall(g, k)
    \/ \E g \in Goroutines : MemoryCacheGet(g)
    \/ \E g \in Goroutines : MemoryCacheDelete(g)
    \/ \E g \in Goroutines, v \in Values : OverviewReturns(g, v)
    \/ \E g \in Goroutines, e \in Errors : OverviewFails(g, e)
    \/ Cleanup
    \/ Janitor

SpecService == Init /\ [][NextService]_vars

\* ------------------------------------------ fetchAndAggregate, call by call
\* The upstream calls of fetchAndAggregate, in the order of the source:
\* GetValidators, GetRewardsAggregate, GetPerformanceAggregate.
UpstreamCalls == <<"overview", "rewards", "performance">>

\* The goroutine has an upstream call in flight.
Fetching(g) == \E i \in 1..Len(UpstreamCalls) : gpc[g] = UpstreamCalls[i]

\* What follows the call in flight, "done" after the last one.
CallAfter(call) ==
    IF call = "overview" THEN "rewards"
    ELSE IF call = "rewards" THEN "performance"
    ELSE "done"

\* GetValidatorData has missed the cache: fetchAndAggregate issues its first
\* call.
FetchAndAggregate(g) ==
    /\ gpc[g] = "fetch"
    /\ gpc' = [gpc EXCEPT ![g] = UpstreamCalls[1]]
    /\ UNCHANGED <<items, mu, key, ret, invoked, shared, lastFail, nonCacheVars>>

\* A call that fails and is followed by the next call all the same.
CallFailsGoesOn(g, e) ==
    /\ Fetching(g)
    /\ IF CallAfter(gpc[g]) = "done"
       THEN GetOrSetReturn(g, Nil, e)
       ELSE /\ gpc' = [gpc EXCEPT ![g] = CallAfter(@)]
            /\ ret' = [ret EXCEPT ![g] = [err |-> e, value |-> Nil]]
            /\ UNCHANGED <<key, invoked>>
    /\ UNCHANGED <<items, mu, shared, lastFail, nonCacheVars>>

\* The call in flight returns an error: fetchAndAggregate returns it wrapped,
\* and GetValidatorData returns it.
CallFails(g, e) ==
    /\ Fetching(g)
    /\ GetOrSetReturn(g, Nil, e)
    /\ UNCHANGED <<items, mu, shared, lastFail, nonCacheVars>>

\* The call in flight succeeds.  After the first two the next call is issued;
\* after the last the response v is built, and GetValidatorData stores it:
\* s.cache.Set(cacheKey, response).
CallReturns(g, v) ==
    /\ Fetching(g)
    /\ mu = "free"
    /\ IF CallAfter(gpc[g]) = "done"
       THEN /\ items' = [items EXCEPT ![key[g]] = NewItem(v)]
            /\ GetOrSetReturn(g, v, Nil)
       ELSE /\ gpc' = [gpc EXCEPT ![g] = CallAfter(@)]
            /\ UNCHANGED <<items, key, ret, invoked>>
    /\ UNCHANGED <<mu, shared, lastFail, nonCacheVars>>

NextFetch ==
    \/ ServiceTick
    \/ \E g \in Goroutines, k \in Keys : GetValidatorDataCall(g, k)
    \/ \E g \in Goroutines : GetValidatorDataGet(g)
    \/ \E g \in Goroutines : FetchAndAggregate(g)
    \/ \E g \in Goroutines, v \in Values : CallReturns(g, v)
    \/ \E g \in Goroutines, e \in Errors : CallFails(g, e)
    \/ Cleanup

SpecFetch == Init /\ [][NextFetch]_vars

\* ---------------------------------------------- validator.Handler, a request
\* The handler is past the overview stage with the responses succ: without
\* any it answers 502; a range that is not allowed is answered 400; else
\* BatchFetchRewards is called for the IDs of successMap.
AfterOverview(succ, rng, calls) ==
    IF \A id \in ValidIds : succ[id] = Nil
    THEN hpc' = "done" /\ hstatus' = StatusBadGateway /\ hcalls' = calls
    ELSE IF rng # "" /\ rng \notin EvalWindows
    THEN hpc' = "done" /\ hstatus' = StatusBadRequest /\ hcalls' = calls
    ELSE hpc' = "rewards" /\ hstatus' = 0 /\ hcalls' = Append(calls, "rewards")

\* A request r arrives: 400 unless it has 1 to MaxBatch IDs, each from 1 to
\* MaxId; then the distinct IDs are looked up with memCache.Get, which drops
\* an entry it finds expired, and BatchFetchOverview is called for the IDs
\* the cache did not answer.
HandlerRequest(r) ==
    /\ hpc \in {"idle", "done"}
    /\ hreq' = r
    /\ LET ids == Distinct(r.ids)
           hit(id) == id \in ids /\ MemGet(CacheKeyOf(id)).ok
       IN IF \/ Len(r.ids) = 0
             \/ Len(r.ids) > MaxBatch
             \/ \E i \in 1..Len(r.ids) : r.ids[i] < 1 \/ r.ids[i] > MaxId
          THEN /\ hpc' = "done" /\ hstatus' = StatusBadRequest /\ hcalls' = <<>>
               /\ missing' = {} /\ successMap' = NoSuccess /\ errsMap' = NoSuccess
               /\ UNCHANGED store
          ELSE /\ store' = [k \in Keys |->
                               IF /\ \E id \in ids : CacheKeyOf(id) = k
                                  /\ store[k].present /\ Expired(store[k])
                               THEN NoItem
                               ELSE store[k]]
               /\ missing' = {id \in ids : ~hit(id)}
               /\ successMap' = [id \in ValidIds |->
                                    IF hit(id) THEN MemGet(CacheKeyOf(id)).value
                                    ELSE Nil]
               /\ errsMap' = NoSuccess
               /\ IF \E id \in ids : ~hit(id)
                  THEN hpc' = "overview" /\ hstatus' = 0 /\ hcalls' = <<"overview">>
                  ELSE AfterOverview([id \in ValidIds |->
                                         IF hit(id) THEN MemGet(CacheKeyOf(id)).value
                                         ELSE Nil], r.rng, <<>>)
    /\ UNCHANGED <<govVars, cacheVars, workerVars>>
    /\ UNCHANGED <<headerVars, keyVars, valVars, ipVars, iplVars, pageVars>>

\* BatchFetchOverview returns the overviews of the IDs gotIds, with the data
\* v: a missing ID among them gets a response, which is cached; the other
\* missing IDs are errors ("no data from upstream").
BatchOverviewReturns(gotIds, v) ==
    /\ hpc = "overview"
    /\ successMap' = [id \in ValidIds |->
                         IF id \in missing \cap gotIds THEN v ELSE successMap[id]]
    /\ errsMap' = [id \in ValidIds |->
                      IF id \in missing \ gotIds THEN NoData ELSE Nil]
    /\ store' = [k \in Keys |->
                    IF \E id \in missing \cap gotIds : CacheKeyOf(id) = k
                    THEN NewItem(v)
                    ELSE store[k]]
    /\ AfterOverview([id \in ValidIds |->
                         IF id \in missing \cap gotIds THEN v ELSE successMap[id]],
                     hreq.rng, hcalls)
    /\ UNCHANGED <<hreq, missing>>
    /\ UNCHANGED <<govVars, cacheVars, workerVars>>
    /\ UNCHANGED <<headerVars, keyVars, valVars, ipVars, iplVars, pageVars>>

\* An overview failure that marks every requested ID as an error.
BatchOverviewFailsForAll(e) ==
    /\ hpc = "overview"
    /\ errsMap' = [id \in ValidIds |-> IF id \in Distinct(hreq.ids) THEN e ELSE Nil]
    /\ AfterOverview(successMap, hreq.rng, hcalls)
    /\ UNCHANGED <<hreq, missing, successMap, store>>
    /\ UNCHANGED <<govVars, cacheVars, workerVars>>
    /\ UNCHANGED <<headerVars, keyVars, valVars, ipVars, iplVars, pageVars>>

\* BatchFetchOverview returns an error: every missing ID is an error.
BatchOverviewFails(e) ==
    /\ hpc = "overview"
    /\ errsMap' = [id \in ValidIds |-> IF id \in missing THEN e ELSE Nil]
    /\ AfterOverview(successMap, hreq.rng, hcalls)
    /\ UNCHANGED <<hreq, missing, successMap, store>>
    /\ UNCHANGED <<govVars, cacheVars, workerVars>>
    /\ UNCHANGED <<headerVars, keyVars, valVars, ipVars, iplVars, pageVars>>

\* BatchFetchRewards returns, with the totals or with an error that is only
\* logged: BatchFetchPerformance is called.
RewardsReturn ==
    /\ hpc = "rewards"
    /\ hpc' = "performance"
    /\ hcalls' = Append(hcalls, "performance")
    /\ UNCHANGED <<hreq, missing, successMap, errsMap, hstatus, store>>
    /\ UNCHANGED <<govVars, cacheVars, workerVars>>
    /\ UNCHANGED <<headerVars, keyVars, valVars, ipVars, iplVars, pageVars>>

\* BatchFetchPerformance returns, likewise: the response of every ID of
\* successMap is written to the cache again, and the handler answers 200 with
\* the successes and the errors.
PerformanceReturn ==
    /\ hpc = "performance"
    /\ hpc' = "done"
    /\ hstatus' = StatusOK
    /\ store' = [k \in Keys |->
                    IF \E id \in ValidIds : CacheKeyOf(id) = k /\ successMap[id] # Nil
                    THEN NewItem(successMap[CHOOSE id \in ValidIds : CacheKeyOf(id) = k])
                    ELSE store[k]]
    /\ UNCHANGED <<hreq, missing, successMap, errsMap, hcalls>>
    /\ UNCHANGED <<govVars, cacheVars, workerVars>>
    /\ UNCHANGED <<headerVars, keyVars, valVars, ipVars, iplVars, pageVars>>

NextHandler ==
    \/ ServiceTick
    \/ \E ids \in BatchLists, rng \in RangeInputs : HandlerRequest([ids |-> ids, rng |-> rng])
    \/ \E gotIds \in SUBSET ValidIds, v \in Values : BatchOverviewReturns(gotIds, v)
    \/ \E e \in Errors : BatchOverviewFails(e)
    \/ RewardsReturn
    \/ PerformanceReturn
    \/ Janitor

SpecHandler == Init /\ [][NextHandler]_vars

\* -------------------------------------- worker client: queueRawRequest, worker
\* The worker can take a step of its own at the current instant.
WorkerRunnable ==
    \/ wpc = "recv" /\ reqCh # <<>>
    \/ wpc = "sleep" /\ cooldownUntil = 0
    \/ wpc = "token" /\ rateCh = 1
    \/ wpc = "read"

\* The client can take a step of its own at the current instant: its timeout
\* has fired, or it is between two calls of its aggregate.
ClientRunnable(c) ==
    \/ cpc[c] = "waiting" /\ deadline[c] = 0
    \/ cpc[c] = "idle" /\ stage[c] > 0

\* One tick of the worker's clock passes.  Every WorkerSecond ticks the ticker
\* ticks and offers rateCh a token, which is dropped when rateCh is full.
WorkerTick ==
    /\ ~WorkerRunnable
    /\ \A c \in Clients : ~ClientRunnable(c)
    /\ tickerLeft' = IF tickerLeft = 1 THEN WorkerSecond ELSE tickerLeft - 1
    /\ rateCh' = IF tickerLeft = 1 THEN 1 ELSE rateCh
    /\ sinceSend' = Min(WorkerSecond, sinceSend + 1)
    /\ cooldownUntil' = Dec(cooldownUntil)
    /\ deadline' = [c \in Clients |-> Dec(deadline[c])]
    /\ UNCHANGED <<reqCh, wpc, req, workerAttempt, cpc, stage, gone, begun, sendGap>>
    /\ UNCHANGED <<nonWorkerVars, respVars>>

\* The stage the client stands at once the call of stage s has returned: the
\* aggregate ends after the last call and when the overview call fails.
StageAfter(s, ok) == IF s = LastStage \/ (s = 1 /\ ~ok) THEN 0 ELSE s

\* queueRawRequest returns to client c, with a result or an error.
ClientReturn(c, ok) ==
    /\ cpc' = [cpc EXCEPT ![c] = "idle"]
    /\ stage' = [stage EXCEPT ![c] = StageAfter(stage[c], ok)]
    /\ deadline' = [deadline EXCEPT ![c] = 0]
    /\ gone' = [gone EXCEPT ![c] = FALSE]
    /\ begun' = [begun EXCEPT ![c] = IF StageAfter(stage[c], ok) = 0 THEN FALSE ELSE @]

\* Every send into reqCh finds room.
HasRoomAlways(q) == Len(q) <= QueueCap

\* `case c.reqCh <- req` of queueRawRequest can proceed: the buffer of reqCh is
\* not full.
HasRoom(q) == Len(q) < QueueCap

\* The next call of client c's aggregate (overview, rewards, performance):
\* queueRawRequest puts the request into reqCh and waits for the result, or
\* returns "queue full" at once.
QueueRawRequest(c) ==
    /\ cpc[c] = "idle"
    /\ IF HasRoom(reqCh)
       THEN /\ reqCh' = Append(reqCh, [owner |-> c, live |-> TRUE, early |-> FALSE,
                                       ahead |-> Len(reqCh) +
                                                 (IF req = NoReq THEN 0 ELSE 1)])
            /\ cpc' = [cpc EXCEPT ![c] = "waiting"]
            /\ stage' = [stage EXCEPT ![c] = @ + 1]
            /\ deadline' = [deadline EXCEPT ![c] = Timeout]
            /\ UNCHANGED <<gone, begun>>
       ELSE /\ stage' = [stage EXCEPT ![c] = StageAfter(@ + 1, FALSE)]
            /\ begun' = [begun EXCEPT ![c] =
                           IF StageAfter(stage[c] + 1, FALSE) = 0 THEN FALSE ELSE @]
            /\ UNCHANGED <<reqCh, cpc, deadline, gone>>
    /\ UNCHANGED <<rateCh, wpc, req, workerAttempt, cooldownUntil>>
    /\ UNCHANGED <<nonWorkerVars, tickerVars, respVars>>

\* The request r of a client that stops waiting for it.
GivenUp(r, c, queued) ==
    IF r.owner = c /\ r.live
    THEN [r EXCEPT !.live = FALSE, !.early = queued]
    ELSE r

\* time.After(30 s) fires in queueRawRequest: "beaconcha request timeout".
\* The request stays where it is, in reqCh or with the worker.
QueueTimeout(c) ==
    /\ cpc[c] = "waiting"
    /\ deadline[c] = 0
    /\ reqCh' = [i \in 1..Len(reqCh) |-> GivenUp(reqCh[i], c, TRUE)]
    /\ req' = GivenUp(req, c, FALSE)
    /\ ClientReturn(c, FALSE)
    /\ UNCHANGED <<rateCh, wpc, workerAttempt, cooldownUntil>>
    /\ UNCHANGED <<nonWorkerVars, tickerVars, respVars>>

\* The context of the HTTP request client c serves ends while c waits in
\* queueRawRequest, which has no context to watch.
ContextDone(c) ==
    /\ cpc[c] = "waiting"
    /\ ~gone[c]
    /\ gone' = [gone EXCEPT ![c] = TRUE]
    /\ UNCHANGED <<reqCh, rateCh, wpc, req, workerAttempt, cooldownUntil, cpc, stage,
                   deadline, begun>>
    /\ UNCHANGED <<nonWorkerVars, tickerVars, respVars>>

\* The worker receives the newest request of reqCh.
WorkerReceiveNewest ==
    /\ wpc = "recv"
    /\ reqCh # <<>>
    /\ req' = reqCh[Len(reqCh)]
    /\ reqCh' = SubSeq(reqCh, 1, Len(reqCh) - 1)
    /\ workerAttempt' = 0
    /\ written' = 0
    /\ unread' = 0
    /\ wpc' = IF cooldownUntil > 0 THEN "sleep" ELSE "token"
    /\ UNCHANGED <<rateCh, cooldownUntil, cpc, stage, deadline, gone, begun>>
    /\ UNCHANGED <<nonWorkerVars, tickerVars>>

\* `for req := range c.reqCh`: the worker receives the oldest request, sleeps
\* out a cooldown still running, and goes on to the token wait.
WorkerReceive ==
    /\ wpc = "recv"
    /\ reqCh # <<>>
    /\ req' = Head(reqCh)
    /\ reqCh' = Tail(reqCh)
    /\ workerAttempt' = 0
    /\ written' = 0
    /\ unread' = 0
    /\ wpc' = IF cooldownUntil > 0 THEN "sleep" ELSE "token"
    /\ UNCHANGED <<rateCh, cooldownUntil, cpc, stage, deadline, gone, begun>>
    /\ UNCHANGED <<nonWorkerVars, tickerVars>>

\* time.Sleep (of the cooldown, or after a 429) ends.
WorkerWake ==
    /\ wpc = "sleep"
    /\ cooldownUntil = 0
    /\ wpc' = "token"
    /\ UNCHANGED <<reqCh, rateCh, req, workerAttempt, cooldownUntil, cpc, stage,
                   deadline, gone, begun>>
    /\ UNCHANGED <<nonWorkerVars, tickerVars, respVars>>

\* <-rateCh: the token is taken, attempt++ and the request is sent.
WorkerSend ==
    /\ wpc = "token"
    /\ rateCh = 1
    /\ rateCh' = 0
    /\ workerAttempt' = workerAttempt + 1
    /\ wpc' = "inflight"
    /\ begun' = [c \in Clients |-> IF req.live /\ req.owner = c THEN TRUE ELSE begun[c]]
    /\ sendGap' = sinceSend
    /\ sinceSend' = 0
    /\ UNCHANGED <<reqCh, req, cooldownUntil, cpc, stage, deadline, gone, tickerLeft>>
    /\ UNCHANGED <<nonWorkerVars, respVars>>

\* `req.resp <- res`: a caller still waiting in queueRawRequest receives the
\* result at once, otherwise it stays in the buffer of the channel.
WriteResult ==
    /\ written' = written + 1
    /\ unread' = IF req.live THEN unread ELSE unread + 1

\* The worker is done with req: it writes the result, which a caller still
\* waiting receives at once; the requests still queued have one request less
\* ahead of them.
WorkerFinish(ok) ==
    /\ wpc' = "recv"
    /\ req' = NoReq
    /\ workerAttempt' = 0
    /\ reqCh' = [i \in 1..Len(reqCh) |-> [reqCh[i] EXCEPT !.ahead = Dec(@)]]
    /\ WriteResult
    /\ IF req.live
       THEN ClientReturn(req.owner, ok)
       ELSE UNCHANGED <<cpc, stage, deadline, gone, begun>>

\* c.client.Do returns an error and no response: the error is the request's
\* result.
WorkerTransportError ==
    /\ wpc = "inflight"
    /\ WorkerFinish(FALSE)
    /\ UNCHANGED <<rateCh, cooldownUntil>>
    /\ UNCHANGED <<nonWorkerVars, tickerVars>>

\* c.client.Do returns an error together with the last response, its body
\* closed, as it does when the redirect limit stops it: the error is written
\* to req.resp and the loop is left with resp non-nil.
WorkerRedirectError ==
    /\ wpc = "inflight"
    /\ wpc' = "read"
    /\ WriteResult
    /\ req' = [req EXCEPT !.live = FALSE]
    /\ IF req.live
       THEN ClientReturn(req.owner, FALSE)
       ELSE UNCHANGED <<cpc, stage, deadline, gone, begun>>
    /\ UNCHANGED <<reqCh, rateCh, workerAttempt, cooldownUntil>>
    /\ UNCHANGED <<nonWorkerVars, tickerVars>>

\* resp is non-nil after the loop although its error has been written:
\* io.ReadAll of the closed body fails, or the status is not 200, and an
\* error is written to req.resp once more.  The caller is gone, so the write
\* needs room in the buffer and blocks the worker when there is none.
WorkerReadClosed ==
    /\ wpc = "read"
    /\ IF unread < ResultCap
       THEN WorkerFinish(FALSE)
       ELSE /\ wpc' = "blocked"
            /\ UNCHANGED <<reqCh, req, workerAttempt, cpc, stage, deadline, gone, begun,
                           respVars>>
    /\ UNCHANGED <<rateCh, cooldownUntil>>
    /\ UNCHANGED <<nonWorkerVars, tickerVars>>

\* A response arrives.  A 429 on one of the first WorkerRetries attempts sets
\* the cooldown and sleeps it out, then the loop goes on; any other response is
\* the request's result, an error unless the status is 200.
WorkerRespond(status, retryAfter) ==
    /\ wpc = "inflight"
    /\ IF status = StatusTooManyRequests /\ workerAttempt <= WorkerRetries
       THEN /\ cooldownUntil' = RetryAfterWait(retryAfter) + CooldownMargin
            /\ wpc' = "sleep"
            /\ UNCHANGED <<reqCh, req, workerAttempt, cpc, stage, deadline, gone, begun,
                           respVars>>
       ELSE /\ WorkerFinish(status = StatusOK)
            /\ UNCHANGED cooldownUntil
    /\ UNCHANGED rateCh
    /\ UNCHANGED <<nonWorkerVars, tickerVars>>

NextWorker ==
    \/ WorkerTick
    \/ \E c \in Clients : QueueRawRequest(c)
    \/ \E c \in Clients : QueueTimeout(c)
    \/ \E c \in Clients : ContextDone(c)
    \/ WorkerReceive
    \/ WorkerWake
    \/ WorkerSend
    \/ WorkerTransportError
    \/ WorkerRedirectError
    \/ WorkerReadClosed
    \/ \E status \in Statuses, retryAfter \in ResetSeconds : WorkerRespond(status, retryAfter)

SpecWorker == Init /\ [][NextWorker]_vars

\* ------------------------------------------- quota headers of a response
\* One second passes.
HeaderTick ==
    /\ nextAllowed > 0
    /\ nextAllowed' = Dec(nextAllowed)
    /\ prevAllowed' = Dec(prevAllowed)
    /\ UNCHANGED <<headers, tokens, lastEvent, sinceCall, callVars, histVars>>
    /\ UNCHANGED <<cacheVars, memVars, workerVars, keyVars, valVars, ipVars, iplVars, pageVars, handlerVars>>

\* A response with the quota headers hs arrives:
\* UpdateFromHeaders(ParseRateLimitHeaders(resp)).
Observe(hs) ==
    LET info == ParseRateLimitHeaders(hs) IN
    /\ headers' = hs
    /\ prevAllowed' = nextAllowed
    /\ nextAllowed' = NextAllowedAfter(nextAllowed, info.Remaining, info.Reset)
    /\ UNCHANGED <<tokens, lastEvent, sinceCall, callVars, histVars>>
    /\ UNCHANGED <<cacheVars, memVars, workerVars, keyVars, valVars, ipVars, iplVars, pageVars, handlerVars>>

NextHeaders ==
    \/ HeaderTick
    \/ \E r, s, w \in HeaderValues :
           Observe([reset |-> s, remaining |-> r, window |-> w])

SpecHeaders == Init /\ [][NextHeaders]_vars

\* -------------------------------------------------- generateCacheKey
\* Client c is about to ask for the key of the list ids.
KeyRequest(c, ids) ==
    /\ validatorIds' = [validatorIds EXCEPT ![c] = ids]
    /\ cacheKey' = [cacheKey EXCEPT ![c] = <<>>]
    /\ UNCHANGED <<govVars, cacheVars, memVars, workerVars, headerVars, valVars, ipVars, iplVars, pageVars, handlerVars>>

\* cacheKey := s.generateCacheKey(validatorIds).
GenerateCacheKey(c) ==
    LET r == generateCacheKey(validatorIds[c]) IN
    /\ cacheKey[c] = <<>>
    /\ cacheKey' = [cacheKey EXCEPT ![c] = r.key]
    /\ validatorIds' = [validatorIds EXCEPT ![c] = r.validatorIds]
    /\ UNCHANGED <<govVars, cacheVars, memVars, workerVars, headerVars, valVars, ipVars, iplVars, pageVars, handlerVars>>

IdLists == UNION {[1..n -> IdValues] : n \in 0..MaxIds}

NextKey ==
    \/ \E c \in Clients, ids \in IdLists : KeyRequest(c, ids)
    \/ \E c \in Clients : GenerateCacheKey(c)

SpecKey == Init /\ [][NextKey]_vars

\* ------------------------------------------- validateValidatorRequest
ReqIdValues == {-1, 1, 2}
Chains == ValidChains \cup {"", "goerli"}
Ranges == ValidRanges \cup {"", "1y"}

\* The requests that differ from r in one field, or by one more ID, or by
\* having no ID.
Requests(r) ==
    {[r EXCEPT !.ValidatorIds = Append(@, id)] :
         id \in IF Len(r.ValidatorIds) < MaxReqIds THEN ReqIdValues ELSE {}}
    \cup {[r EXCEPT !.ValidatorIds = <<>>]}
    \cup {[r EXCEPT !.Chain = ch] : ch \in Chains}
    \cup {[r EXCEPT !.Period = rg] : rg \in Ranges}
    \cup {[r EXCEPT !.get = g] : g \in BOOLEAN}

\* A request has been decoded.
Decode(r) ==
    /\ valReq' = r
    /\ valErr' = "pending"
    /\ UNCHANGED <<govVars, cacheVars, memVars, workerVars, headerVars, keyVars, ipVars, iplVars, pageVars, handlerVars>>

\* err := h.validateValidatorRequest(req).
Validate ==
    /\ valErr = "pending"
    /\ valErr' = validateValidatorRequest(valReq)
    /\ UNCHANGED valReq
    /\ UNCHANGED <<govVars, cacheVars, memVars, workerVars, headerVars, keyVars, ipVars, iplVars, pageVars, handlerVars>>

NextValidate ==
    \/ \E r \in Requests(valReq) : Decode(r)
    \/ Validate

SpecValidate == Init /\ [][NextValidate]_vars

\* ----------------------------------------------------------- IPRateLimit
\* The handler, under mu, for a request from addr.
IPRequest(addr) ==
    LET ip == ClientIP(addr)
        ci == ClientInfo(ip)
    IN /\ IF Rejects(ci)
             THEN /\ ipClients' = [ipClients EXCEPT ![ip] = ci]
                  /\ ipResp' = [status |-> StatusTooManyRequests, ip |-> ip]
                  /\ UNCHANGED fwdSince
             ELSE /\ ipClients' = [ipClients EXCEPT ![ip] =
                                      [ci EXCEPT !.tokens = @ - 1, !.seenAgo = 0]]
                  /\ ipResp' = [status |-> StatusOK, ip |-> ip]
                  /\ fwdSince' = [fwdSince EXCEPT ![ip] = Min(MaxTokens + 1, @ + 1)]
       /\ UNCHANGED <<govVars, cacheVars, memVars, workerVars>>
       /\ UNCHANGED <<headerVars, keyVars, valVars, iplVars, pageVars, handlerVars>>

\* The janitor's tick, one minute after the last: every client is refilled,
\* and dropped when last seen more than ten minutes ago.
IPJanitor ==
    /\ ipClients' = [ip \in IPs |->
           IF ~ipClients[ip].present \/ ipClients[ip].seenAgo + 1 > StaleMinutes
           THEN NoClient
           ELSE [ipClients[ip] EXCEPT !.tokens = MaxTokens, !.seenAgo = @ + 1]]
    /\ fwdSince' = [ip \in IPs |-> 0]
    /\ ipResp' = NoResp
    /\ UNCHANGED <<govVars, cacheVars, memVars, workerVars>>
    /\ UNCHANGED <<headerVars, keyVars, valVars, iplVars, pageVars, handlerVars>>

NextIP ==
    \/ \E addr \in RemoteAddrs : IPRequest(addr)
    \/ IPJanitor

SpecIP == Init /\ [][NextIP]_vars

\* ---------------------------------------------------- IPRateLimiter.Allow
\* Goroutine g calls Allow(ip); GetLimiter(ip) runs under ipl.mu: the limiter
\* of the entry, created full when the IP has none.
GetLimiter(g, ip) ==
    /\ apc[g].pc = "idle"
    /\ IF limiters[ip] = 0
          THEN /\ buckets' = Append(buckets, [tokens |-> Burst, ip |-> ip])
               /\ limiters' = [limiters EXCEPT ![ip] = Len(buckets) + 1]
          ELSE UNCHANGED <<buckets, limiters>>
    /\ apc' = [apc EXCEPT ![g] =
                  [pc |-> "allow", ret |-> "none", ip |-> ip, lim |-> limiters'[ip]]]
    /\ UNCHANGED allowedCalls
    /\ UNCHANGED <<govVars, cacheVars, memVars, workerVars>>
    /\ UNCHANGED <<headerVars, keyVars, valVars, ipVars, pageVars, handlerVars>>

\* The limiter's Allow(), under the limiter's own mutex, no time having passed.
LimiterAllow(g) ==
    LET l == apc[g].lim
        ok == Allows(buckets[l].tokens)
    IN /\ apc[g].pc = "allow"
       /\ buckets' = IF ok THEN [buckets EXCEPT ![l].tokens = @ - 1] ELSE buckets
       /\ apc' = [apc EXCEPT ![g].pc = "idle", ![g].ret = IF ok THEN "true" ELSE "false"]
       /\ allowedCalls' = IF ok
                            THEN [allowedCalls EXCEPT ![apc[g].ip] = Min(Burst + 1, @ + 1)]
                            ELSE allowedCalls
       /\ UNCHANGED limiters
       /\ UNCHANGED <<govVars, cacheVars, memVars, workerVars>>
       /\ UNCHANGED <<headerVars, keyVars, valVars, ipVars, pageVars, handlerVars>>

NextIPL ==
    \/ \E g \in Servers, ip \in IPs : GetLimiter(g, ip)
    \/ \E g \in Servers : LimiterAllow(g)

SpecIPL == Init /\ [][NextIPL]_vars

\* ------------------------------------------------- Client.GetValidators
\* The frame of a GetValidators step that leaves the governor alone.
PageFrame ==
    /\ UNCHANGED <<govVars, cacheVars, memVars, workerVars>>
    /\ UNCHANGED <<headerVars, keyVars, valVars, ipVars, iplVars, handlerVars>>

\* GetValidators is called; without IDs it returns nil, nil at once.
GetValidatorsCall(empty) ==
    /\ vpc \in {"idle", "done"}
    /\ vpc' = IF empty THEN "done" ELSE "request"
    /\ cursor' = ""
    /\ allData' = <<>>
    /\ vret' = NoReturn
    /\ asked' = <<>>
    /\ got' = <<>>
    /\ PageFrame

\* The loop body up to the call: the request carries the cursor and enters
\* doRequestWithRetry.
PageRequest ==
    /\ vpc = "request"
    /\ StartCall("c1")
    /\ vpc' = "calling"
    /\ asked' = Append(asked, cursor)
    /\ UNCHANGED <<cursor, allData, vret, got>>
    /\ UNCHANGED <<cacheVars, memVars, workerVars>>
    /\ UNCHANGED <<headerVars, keyVars, valVars, ipVars, iplVars, handlerVars>>

\* doRequestWithRetry returned an error or a status other than 200:
\* GetValidators returns nil and the error.
PageFails ==
    /\ vpc = "calling" /\ pc["c1"] = "done"
    /\ GetValidatorsErr(result["c1"]).kind # "none"
    /\ vpc' = "done"
    /\ vret' = [data |-> <<>>, err |-> GetValidatorsErr(result["c1"]).kind]
    /\ UNCHANGED <<cursor, allData, asked, got>>
    /\ PageFrame

\* A 200 whose body does not decode.
PageUndecodable ==
    /\ vpc = "calling" /\ pc["c1"] = "done"
    /\ GetValidatorsErr(result["c1"]).kind = "none"
    /\ vpc' = "done"
    /\ vret' = [data |-> <<>>, err |-> "decode"]
    /\ UNCHANGED <<cursor, allData, asked, got>>
    /\ PageFrame

\* A 200 with the page p: its data is appended; with a next cursor the loop
\* goes on, without one GetValidators returns allData.
PageArrives(p) ==
    /\ vpc = "calling" /\ pc["c1"] = "done"
    /\ GetValidatorsErr(result["c1"]).kind = "none"
    /\ Len(got) + 1 = MaxPages => ~HasNext(p)
    /\ allData' = AppendPage(allData, p)
    /\ got' = Append(got, p)
    /\ IF HasNext(p)
          THEN /\ cursor' = p.next
               /\ vpc' = "request"
               /\ UNCHANGED vret
          ELSE /\ vpc' = "done"
               /\ vret' = [data |-> allData', err |-> "none"]
               /\ UNCHANGED cursor
    /\ UNCHANGED asked
    /\ PageFrame

NextPages ==
    \/ \E empty \in BOOLEAN : GetValidatorsCall(empty)
    \/ PageRequest
    \/ PageFails
    \/ PageUndecodable
    \/ \E p \in Pages : PageArrives(p)
    \/ Tick
    \/ Cancel("c1")
    \/ WaitAdaptiveEnter("c1")
    \/ AdaptWake("c1")
    \/ AdaptCancel("c1")
    \/ WaitReserve("c1")
    \/ TokenGrant("c1")
    \/ TokenCancel("c1")
    \/ TransportError("c1")
    \/ \E st \in Statuses, rem \in Remainings, rs \in ResetSeconds :
          Respond("c1", st, rem, rs)
    \/ RetryWake("c1")
    \/ RetryCancel("c1")

SpecPages == Init /\ [][NextPages]_vars

\* ------------------------------------------------------------- properties
\* A WaitAdaptive of caller c returns nil in this step (and the attempt is sent).
Granted(c) == granted'[c] = granted[c] + 1

\* C1: every HTTP attempt is sent only after its own grant from the limiter:
\* a call never has more attempts sent than successful limiter waits, and a
\* call whose limiter wait failed has ended without sending that attempt.
C1_SentOnlyAfterGrant ==
    \A c \in Callers :
        /\ sent[c] <= granted[c]
        /\ result[c].kind = "limiter" => pc[c] = "done" /\ sent[c] = granted[c]

\* A call whose first attempt was sent and whose next limiter wait failed.
C1_Witness ==
    \E c \in Callers :
        pc[c] = "done" /\ result[c].kind = "limiter" /\ sent[c] >= 1

\* C2: consecutive successful returns of Wait/WaitAdaptive, of whichever
\* callers, are at least Interval apart, the construction counting as the
\* first of them.
C2_GrantsAtLeastIntervalApart ==
    lastGap >= Interval

\* Both callers hold a grant of their own at once.
C2_Witness ==
    \A c \in Callers : pc[c] = "inflight" /\ granted[c] >= 1

\* C3 as stated: a WaitAdaptive that starts after an update with remaining = 0
\* and reset = R at time t does not return before t + R, whichever such update
\* it was.
C3_Original ==
    \A c \in Callers : pc[c] = "inflight" => seenMax[c] = 0

\* C3: a WaitAdaptive does not return nil before the nextAllowed it read when
\* it started, that is before t + R of the latest update with remaining = 0
\* and reset = R > 0 made before it started.
C3_NotBeforeDeadlineRead ==
    \A c \in Callers : pc[c] = "inflight" => waitUntil[c] = 0

\* A WaitAdaptive that slept until nextAllowed has returned nil.
C3_Witness ==
    \E c \in Callers : pc[c] = "inflight" /\ slept[c]

\* C4: whenever a WaitAdaptive returns nil, the current time is not earlier
\* than nextAllowed as it stands at that moment.
C4_Original ==
    [][\A c \in Callers : Granted(c) => nextAllowed = 0]_vars

\* C5 as stated: a call whose every attempt is answered 429 ends after
\* exactly MaxRetries attempts with the retries-exhausted error.
C5_Original ==
    \A c \in Callers :
        pc[c] = "done" /\ all429[c] /\ result[c].kind \notin {"limiter", "ctx"}
        => result[c].kind = "maxretries" /\ sent[c] = MaxRetries

\* C5: a call whose every attempt is answered 429, and that is not cancelled,
\* ends after exactly MaxRetries + 1 attempts with the retries-exhausted
\* error wrapping the 429.
C5_AttemptsWhenAlways429 ==
    \A c \in Callers :
        pc[c] = "done" /\ all429[c] /\ result[c].kind \notin {"limiter", "ctx"}
        => /\ result[c].kind = "maxretries"
           /\ result[c].cause = "429"
           /\ sent[c] = MaxRetries + 1

\* A call has ended on max retries exceeded after nothing but 429 answers.
C5_Witness ==
    \E c \in Callers :
        pc[c] = "done" /\ all429[c] /\ result[c].kind = "maxretries"

C7_Original ==
    \A c \in Callers : transportErr[c] => pc[c] = "done"

\* GetOrSet of goroutine g returns in this step.
Returns(g) == gpc[g] # "done" /\ gpc'[g] = "done"

\* C8: never two loaders for one key in progress, and a goroutine that was
\* inside GetOrSet(k) while another goroutine's loader for k succeeded
\* returns that loader's value without calling its own loader.
C8_Original ==
    [][/\ \A k \in Keys :
             Cardinality({h \in Goroutines : gpc'[h] = "loading" /\ key'[h] = k}) <= 1
       /\ \A g \in Goroutines :
             Returns(g) /\ shared[g].kind = "ok" =>
                ~invoked[g] /\ ret'[g] = [err |-> Nil, value |-> shared[g].value]]_vars

\* C9: a goroutine that was inside GetOrSet(k) while another goroutine's
\* loader for k failed returns that loader's error without calling its own
\* loader.
C9_Original ==
    [][\A g \in Goroutines :
          Returns(g) /\ shared[g].kind = "err" =>
             ~invoked[g] /\ ret'[g] = [err |-> shared[g].err, value |-> Nil]]_vars

C20_Original ==
    \A c \in Callers :
        pc[c] = "inflight" /\ prev429[c].k > 0 => prev429[c].floor = 0

\* C12: Cache.Get never waits for I/O: a goroutine inside Get can complete it
\* at once, also while another goroutine's GetOrSet is running its loader.
C12_Original ==
    \A g \in Goroutines : gpc[g] = "get" => ENABLED GetOrSetGet(g)

\* The entry the goroutine's Get is about to read: Cache.items for
\* GetValidatorData, MemoryCache.store for the handler.
Entry(g) == IF gpc[g] = "svcGet" THEN items[key[g]] ELSE store[key[g]]

\* The goroutine's Get returns found = true in this step.
Found(g) == gpc[g] \in {"svcGet", "memRead"} /\ gpc'[g] = "done"

\* C11: Get returns found = true only for a key that has an entry and only
\* while the current time is not after the entry's expiration, and then with the
\* entry's value; an entry past its expiration is reported absent whether or not
\* the cleanup has deleted it.  Both for Cache and for MemoryCache.
C11_FoundOnlyUnexpired ==
    [][\A g \in Goroutines :
          /\ Found(g) => /\ Entry(g).present
                         /\ Entry(g).left >= 0
                         /\ ret'[g].value = Entry(g).value
          /\ gpc[g] \in {"svcGet", "memRead"} /\ Entry(g).present /\ Entry(g).left < 0
                => gpc'[g] # "done"]_vars

\* Both kinds of Get have reported an entry absent that is past its expiration
\* and still stored.
C11_Witness ==
    \E g, h \in Goroutines :
        /\ gpc[g] = "fetch" /\ items[key[g]].present /\ items[key[g]].left < 0
        /\ gpc[h] = "memDelete" /\ store[key[h]].present /\ store[key[h]].left < 0

\* C16: two concurrent GetValidatorData calls for the same ID set execute
\* fetchAndAggregate once: no two goroutines are inside it for one cache key.
C16_Original ==
    \A g, h \in Goroutines :
        g # h /\ gpc[g] = "fetch" /\ gpc[h] = "fetch" => key[g] # key[h]

\* C13: the worker processes one request at a time, in the order queueRawRequest
\* accepted them: the request it is processing has no request accepted before
\* it left unfinished, and the queued ones have, in order, one more each.
C13_FifoOneAtATime ==
    /\ req # NoReq => req.ahead = 0
    /\ \A i \in 1..Len(reqCh) :
           reqCh[i].ahead = (i - 1) + (IF req = NoReq THEN 0 ELSE 1)

\* An attempt of one request is in flight while two later ones are queued.
C13_Witness ==
    /\ wpc = "inflight"
    /\ workerAttempt > 1
    /\ Len(reqCh) = 2
    /\ reqCh[1].owner # reqCh[2].owner

\* C14: no upstream attempt is sent for a request whose caller's wait ended by
\* its timeout while the request was still queued.
C14_Original == wpc = "inflight" => ~req.early

\* C15: between the first and the last upstream call of one client's aggregate
\* request no upstream call of another client's request is sent.
C15_Original ==
    wpc = "inflight" => \A c \in Clients : begun[c] => req.owner = c

\* C18: once the caller's context is done, the call does not go on waiting (no
\* time passes for it) and no further attempt is sent for it.
C18_Original ==
    [][\A c \in Clients :
          gone[c] /\ cpc[c] = "waiting" =>
              /\ deadline'[c] = deadline[c] \/ cpc'[c] # "waiting"
              /\ ~(wpc = "token" /\ wpc' = "inflight" /\ req.owner = c /\ req.live)]_vars

C22_Original == sendGap >= WorkerSecond

\* C30: in MemoryCache a Get never removes an entry that has not expired: an
\* item that is stored and not past its expiresAt is still stored after every
\* step (overwritten perhaps, never deleted).
C30_Original ==
    [][\A k \in Keys :
          store[k].present /\ store[k].left >= 0 => store'[k].present]_vars

\* The goroutine's s.cache.Set(k, v) completes in this step.
Sets(g, k) == gpc[g] = "fetch" /\ key[g] = k /\ gpc'[g] = "done" /\ ret'[g].err = Nil

\* C23: Set overwrites unconditionally: when Set(k, v) completes Get(k) returns
\* v, whatever entry k had before, and goes on returning it until the entry's
\* expiration unless a later Set replaces it.
C23_SetOverwrites ==
    [][\A k \in Keys :
          /\ \A g \in Goroutines :
                 Sets(g, k) => Get(k)' = [ok |-> TRUE, value |-> ret'[g].value]
          /\ Get(k).ok /\ (\A g \in Goroutines : ~Sets(g, k)) =>
                 \/ Get(k)' = Get(k)
                 \/ items'[k] = [items[k] EXCEPT !.left = -1]]_vars

\* Two calls have stored different values one after the other; the key holds
\* the later one, just stored, and the other key holds nothing.
C23_Witness ==
    \E k \in Keys, g, h \in Goroutines :
        /\ gpc[g] = "done" /\ gpc[h] = "done"
        /\ ret[g].err = Nil /\ ret[h].err = Nil
        /\ ret[g].value # Nil /\ ret[h].value # Nil /\ ret[g].value # ret[h].value
        /\ items[k] = NewItem(ret[h].value)
        /\ \A j \in Keys \ {k} : ~items[j].present
        /\ \A j \in Keys : ~store[j].present

\* C26: a response without a ratelimit-remaining header, or with one that is
\* not a number, gives no quota signal: UpdateFromHeaders leaves nextAllowed as
\* it was.
C26_Original ==
    headers.remaining.kind # "int" => nextAllowed = prevAllowed

\* The number of times x occurs in s.
Count(s, x) == Cardinality({i \in 1..Len(s) : s[i] = x})

\* s and t are permutations of each other.
Permutation(s, t) == Len(s) = Len(t) /\ \A x \in IdValues : Count(s, x) = Count(t, x)

\* The IDs that occur in s.
IdSet(s) == {s[i] : i \in 1..Len(s)}

\* C24: generateCacheKey gives two lists that are permutations of each other
\* the same key, gives two lists of at most 10 IDs with different ID sets
\* different keys, and leaves the caller's slice as it was.
C24_KeyCanonical ==
    /\ [](\A c, d \in Clients :
             cacheKey[c] # <<>> /\ cacheKey[d] # <<>> =>
                 /\ Permutation(validatorIds[c], validatorIds[d]) =>
                        cacheKey[c] = cacheKey[d]
                 /\ (/\ Len(validatorIds[c]) <= 10
                     /\ Len(validatorIds[d]) <= 10
                     /\ IdSet(validatorIds[c]) # IdSet(validatorIds[d])) =>
                        cacheKey[c] # cacheKey[d])
    /\ [][\A c \in Clients :
             cacheKey[c] = <<>> /\ cacheKey'[c] # <<>> =>
                 validatorIds'[c] = validatorIds[c]]_vars

C24_Witness ==
    /\ validatorIds["a"] = <<12, 1, 2>>
    /\ validatorIds["b"] = <<2, 12, 1>>
    /\ cacheKey["a"] = <<"validators:", "1", ",", "2", ",", "1", "2">>
    /\ cacheKey["b"] = cacheKey["a"]

\* The positions of ids that hold a negative ID or an ID seen before.
NegativeAt(ids) == {i \in 1..Len(ids) : ids[i] < 0}
RepeatAt(ids) == {i \in 1..Len(ids) : \E j \in 1..(i - 1) : ids[j] = ids[i]}

\* The request meets every rule.
Acceptable(r) ==
    /\ Len(r.ValidatorIds) >= 1
    /\ Len(r.ValidatorIds) <= MaxValidatorIDs
    /\ NegativeAt(r.ValidatorIds) = {}
    /\ RepeatAt(r.ValidatorIds) = {}
    /\ r.Chain \in {"mainnet", "hoodi"}
    /\ r.get => r.Period \in {"24h", "7d", "30d", "90d", "all_time"}

\* The first rule r breaks, the rules taken in the order: at least one ID, at
\* most MaxValidatorIDs, no negative ID, no repeated ID, chain, range.
FirstViolated(r) ==
    IF Len(r.ValidatorIds) < 1 THEN "at least 1"
    ELSE IF Len(r.ValidatorIds) > MaxValidatorIDs THEN "at most"
    ELSE IF NegativeAt(r.ValidatorIds) # {} THEN "non-negative"
    ELSE IF RepeatAt(r.ValidatorIds) # {} THEN "unique"
    ELSE IF r.Chain \notin {"mainnet", "hoodi"} THEN "chain"
    ELSE "range"

\* C25 as stated: validateValidatorRequest accepts exactly the acceptable
\* requests, and its error names the first violated rule in the order above.
C25_Original ==
    valErr # "pending" =>
        IF Acceptable(valReq) THEN valErr = Nil ELSE valErr = FirstViolated(valReq)

\* The first rule r breaks when the two ID rules are taken together, ID by
\* ID: the rule named is the one the first negative or repeated ID breaks.
FirstViolatedById(r) ==
    LET ids == r.ValidatorIds
        bad == NegativeAt(ids) \cup RepeatAt(ids)
        first == CHOOSE i \in bad : \A j \in bad : i <= j
    IN IF Len(ids) < 1 THEN "at least 1"
       ELSE IF Len(ids) > MaxValidatorIDs THEN "at most"
       ELSE IF bad # {} THEN (IF ids[first] < 0 THEN "non-negative" ELSE "unique")
       ELSE IF r.Chain \notin {"mainnet", "hoodi"} THEN "chain"
       ELSE "range"

\* C25: validateValidatorRequest accepts exactly the acceptable requests;
\* otherwise its error names the first violated rule in the order: at least
\* one ID, at most MaxValidatorIDs, the rule (non-negative, else unique) that
\* the first offending ID breaks, chain, range.
C25_FirstViolatedById ==
    valErr # "pending" =>
        IF Acceptable(valReq) THEN valErr = Nil ELSE valErr = FirstViolatedById(valReq)

C25_Witness ==
    /\ valReq.ValidatorIds = <<1, 1, -1>>
    /\ valReq.Chain = "mainnet"
    /\ valErr = "unique"

C28_FirstBurstAllowed ==
    /\ [](/\ \A ip \in IPs :
                /\ allowedCalls[ip] <= Burst
                /\ Cardinality({l \in 1..Len(buckets) : buckets[l].ip = ip}) <= 1
          /\ \A g \in Servers :
                apc[g].ret = "false" => allowedCalls[apc[g].ip] = Burst)
    /\ [][\A g \in Servers :
             apc[g].pc = "allow" /\ apc'[g].pc = "idle" =>
                 /\ apc'[g].ret = "true" <=> allowedCalls[apc[g].ip] < Burst
                 /\ \A l \in 1..Len(buckets) :
                        buckets[l].ip # apc[g].ip => buckets'[l] = buckets[l]]_vars

C28_Witness ==
    /\ apc["g1"] = [pc |-> "idle", ret |-> "true", ip |-> "10.0.0.1", lim |-> 2]
    /\ apc["g2"] = [pc |-> "idle", ret |-> "false", ip |-> "10.0.0.1", lim |-> 2]
    /\ allowedCalls = [ip \in IPs |-> Burst]
    /\ Len(buckets) = 2

\* The data of the pages ps, one after the other.
RECURSIVE Concat(_)
Concat(ps) == IF ps = <<>> THEN <<>> ELSE Head(ps).data \o Concat(Tail(ps))

\* C29: every page request of GetValidators carries the next cursor of the
\* page before it (the first none), a page without a next cursor ends the
\* call, which returns the data of all pages in request order, and every page
\* request is a doRequestWithRetry call of its own, each attempt of which
\* follows a limiter wait.
C29_PagesInOrder ==
    /\ Len(asked) - Len(got) \in {0, 1}
    /\ \A i \in 1..Len(asked) : asked[i] = IF i = 1 THEN "" ELSE got[i - 1].next
    /\ \A i \in 1..Len(got) : i < Len(asked) => got[i].next \in {"n1", "n2"}
    /\ vpc = "request" => Len(got) = Len(asked)
    /\ vpc = "calling" =>
           /\ Len(asked) = Len(got) + 1
           /\ sent["c1"] <= granted["c1"]
           /\ pc["c1"] = "loop" => attempt["c1"] = sent["c1"]
    /\ vpc = "done" /\ vret.err = "none" /\ asked # <<>> =>
           /\ Len(got) = Len(asked)
           /\ got[Len(got)].next \in {"nil", ""}
           /\ vret.data = Concat(got)

C29_Witness ==
    /\ vpc = "done" /\ vret = [data |-> <<"v1", "v2">>, err |-> "none"]
    /\ asked = <<"", "n2">>
    /\ got = <<[data |-> <<"v1">>, next |-> "n2"], [data |-> <<"v2">>, next |-> "nil"]>>
    /\ sent["c1"] = 2

\* C37 as stated: UpdateFromHeaders never moves nextAllowed earlier.
C37_Original == nextAllowed >= prevAllowed

\* C37: UpdateFromHeaders called with remaining = 0 and a positive reset sets
\* nextAllowed to now + reset, be that earlier or later than it was; called
\* with anything else it leaves nextAllowed as it was.
C37_SetToReset ==
    /\ [](LET info == ParseRateLimitHeaders(headers) IN
          IF info.Remaining = 0 /\ info.Reset > 0
          THEN nextAllowed <= info.Reset
          ELSE nextAllowed = prevAllowed)
    /\ [][nextAllowed' \notin {nextAllowed, Dec(nextAllowed)} =>
             /\ ParseRateLimitHeaders(headers').Remaining = 0
             /\ nextAllowed' = ParseRateLimitHeaders(headers').Reset]_vars

C37_Witness ==
    /\ headers.remaining = [n |-> 0, kind |-> "int"]
    /\ headers.reset = [n |-> 1, kind |-> "int"]
    /\ prevAllowed = 2
    /\ nextAllowed = 1

\* C38 as stated: a call sleeps after a 429 only when another attempt will
\* follow the sleep; after the 429 of its last permitted attempt it returns
\* without sleeping.
C38_Original ==
    \A c \in Callers :
        pc[c] = "retrySleep" /\ sleepUntil[c] > 0 => attempt[c] < MaxRetries

\* A step of the background cleanup: entries leave a map and no goroutine moves.
Sweeps ==
    /\ gpc' = gpc
    /\ \E k \in Keys : \/ items[k].present /\ ~items'[k].present
                       \/ store[k].present /\ ~store'[k].present

\* C31: a run of the background cleanup (Cache.cleanup, MemoryCache.janitor)
\* removes no entry that is not past its expiration, and leaves what Get
\* answers for every key as it was.
C31_CleanupInvisible ==
    [][Sweeps =>
          \A k \in Keys :
              /\ items[k].present /\ ~Expired(items[k]) => items'[k] = items[k]
              /\ store[k].present /\ ~Expired(store[k]) => store'[k] = store[k]
              /\ Get(k)' = Get(k)
              /\ MemGet(k)' = MemGet(k)]_vars

\* A sweep is due beside an entry that Get still answers with.
C31_Witness ==
    /\ Swept(store["k1"]) /\ MemGet("k2").ok
    /\ \A g \in Servers : gpc[g] = "done"

\* C32 as stated: the worker writes one result to the result channel of a
\* request, never a second one, and no write blocks the worker.
C32_Original == written <= 1 /\ wpc # "blocked"

\* C33 as stated: no caller is starved; a request accepted into the queue is
\* never left there behind a worker that has stopped for good.
C33_Original == wpc = "blocked" => reqCh = <<>>

\* C34: a call of queueRawRequest that finds reqCh holding its capacity of
\* requests returns at once with "queue full": the caller does not wait, its
\* request is not queued, and the queued requests and their order stay as
\* they are.
C34_QueueFull ==
    [][\A c \in Clients :
          Len(reqCh) = QueueCap /\ cpc[c] = "idle" /\ stage'[c] # stage[c] =>
              /\ reqCh' = reqCh
              /\ cpc'[c] = "idle"
              /\ deadline'[c] = deadline[c]]_vars

\* A client is between the calls of its aggregate with no request of its own
\* anywhere, its second call refused by the full queue.
C34_Witness ==
    /\ Len(reqCh) = QueueCap
    /\ \E c \in Clients :
           /\ cpc[c] = "idle" /\ stage[c] = 2
           /\ req = NoReq \/ req.owner # c
           /\ \A i \in 1..Len(reqCh) : reqCh[i].owner # c

\* C35: fetchAndAggregate issues overview, rewards and performance in this
\* order, each after the call before it has succeeded; when a call fails no
\* later call is issued, GetValidatorData returns the error, and the cache is
\* left as it was.
C35_InOrderOrError ==
    /\ [](\A g \in Goroutines : Fetching(g) => ret[g] = NoRet)
    /\ [][\A g \in Goroutines :
             /\ gpc'[g] # gpc[g] /\ gpc'[g] = "overview" => gpc[g] = "fetch"
             /\ gpc'[g] # gpc[g] /\ gpc'[g] = "rewards" => gpc[g] = "overview"
             /\ gpc'[g] # gpc[g] /\ gpc'[g] = "performance" => gpc[g] = "rewards"
             /\ Fetching(g) /\ ret'[g] # NoRet /\ ret'[g].err # Nil =>
                    /\ gpc'[g] = "done"
                    /\ ret'[g].value = Nil
                    /\ items' = items]_vars

\* A call of one request has failed and its error is returned, nothing stored,
\* while the performance call of another is in flight.
C35_Witness ==
    /\ gpc["g1"] = "done" /\ ret["g1"].err = "e1"
    /\ gpc["g2"] = "performance"
    /\ \A k \in Keys : ~items[k].present

\* C36 as stated: a request whose IDs the cache all answers causes no
\* upstream call.
C36_Original == missing = {} => hcalls = <<>>

\* C40 as stated: a request answered 400 has caused no upstream call.
C40_Original == hstatus = StatusBadRequest => hcalls = <<>>

\* C39: in a request the handler answers with 200, each distinct requested ID
\* is in exactly one of successes and errors, and no other ID is in either.
C39_SuccessOrError ==
    hstatus = StatusOK =>
        \A id \in ValidIds :
            IF id \in Distinct(hreq.ids)
            THEN (successMap[id] # Nil) # (errsMap[id] # Nil)
            ELSE successMap[id] = Nil /\ errsMap[id] = Nil

\* A 200 with one ID answered from the cache and the other an error.
C39_Witness ==
    /\ hstatus = StatusOK
    /\ hcalls = <<"overview", "rewards", "performance">>
    /\ missing = {2} /\ errsMap[2] = NoData
    /\ successMap[1] # Nil

====
